---- MODULE Spec2Model ----
(***************************************************************************)
(* Model of the message bus (core/message_bus/message_bus.py), of the      *)
(* agent communicator (core/agent_communication/agent_communication.py)    *)
(* of the agent orchestrator                                               *)
(* (core/agent_orchestrator/agent_orchestrator.py), of the workflow       *)
(* engine (core/workflow_engine/workflow_engine.py) and of the idempotency *)
(* guard (core/workflow_safety.py).                                       *)
(*                                                                         *)
(* Threads: the bus's dispatch worker (_process_messages), the threads of  *)
(* each communicator's executor (_process_request), and the caller        *)
(* threads that publish, subscribe, issue requests and call the            *)
(* orchestrator or the engine.  Every action is one step of one of these   *)
(* threads.                                                                *)
(***************************************************************************)
EXTENDS Integers, Sequences, FiniteSets, TLC

VARIABLES
    now,                \* time.time(), in clock ticks
    subscribers,        \* MessageBus.subscribers: topic -> list of (subscription_id, callback)
    message_queue,      \* MessageBus.message_queue: the heap list of queue.PriorityQueue
    response_futures,   \* MessageBus.response_futures: correlation_id -> future (the call owning it)
    stats,              \* MessageBus.stats
    comms,              \* the AgentCommunicator objects constructed so far
    calls,              \* the calls of send_request / send_task_request / offer_collaboration
    nextMid,            \* identity of the next Message object constructed
    lastOp,             \* history: the last operation on the bus, its outcome and the callbacks it invoked
    orch,               \* the AgentOrchestrator: registry, sessions, locks, stats, its caller threads
    eng,                \* the WorkflowEngine: definitions, executions, active set, its caller threads
    safety              \* core/workflow_safety.py: the registry of guards, the memory store, the limiter, its caller threads

vars == <<now, subscribers, message_queue, response_futures, stats, comms, calls,
          nextMid, lastOp, orch, eng, safety>>

(***************************************************************************)
(* Bounds of the model.                                                    *)
(***************************************************************************)
MaxTime == 2
MaxMsgs == 2
MaxCallMsgs == 3
MaxCalls == 2
MaxSubs == 2
MaxHeapMsgs == 7
MaxHeap == 6
MaxCallTime == 1

(***************************************************************************)
(* Program constants.                                                      *)
(***************************************************************************)
DEFAULT_TTL == 300

Agents == {"a1", "a2"}
NoReceiver == "none"
BusTypes == {"request", "response", "notification", "broadcast"}
AgentTypes == {"task_request", "task_response", "status_update",
               "collaboration_offer", "collaboration_response"}

Topic(kind, name) == <<kind, name>>
AgentTopic(r) == Topic("agent", r)
BroadcastTopic(t) == Topic("broadcast", t)
Topics == {AgentTopic(a) : a \in Agents} \cup {BroadcastTopic(t) : t \in BusTypes \cup AgentTypes}

ExtCallback(n) == [kind |-> "ext", name |-> n, comm |-> 0]
CommCallback(i) == [kind |-> "comm", name |-> "_handle_message", comm |-> i]

(***************************************************************************)
(* Message: the fields set by Message.__init__ .  mid stands for the       *)
(* identity of the object.                                                 *)
(***************************************************************************)
Message(mid, type, sender, receiver, payload, cid, priority, ts, ttl) ==
    [mid |-> mid, message_type |-> type, sender |-> sender, receiver |-> receiver,
     payload |-> payload, correlation_id |-> cid, priority |-> priority,
     timestamp |-> ts, ttl |-> ttl]

\* is_expired with the bound moved by one: a message lives one instant longer
is_expired_late(m, t) == t - m.timestamp > m.ttl + 1

is_expired(m, t) == t - m.timestamp > m.ttl


(***************************************************************************)
(* queue.PriorityQueue over heapq.  An entry is the tuple                  *)
(* (-priority, message).  Tuples compare by their first component; on a    *)
(* tie the second components are compared, and two distinct Message        *)
(* objects are not orderable: the comparison raises TypeError.  put_at is  *)
(* history: the time of the publish that made the entry.                   *)
(***************************************************************************)
Entry(m, t) == [key |-> 0 - m.priority, msg |-> m, put_at |-> t]

EntryLt(x, y) ==
    IF x.key # y.key THEN (IF x.key < y.key THEN "lt" ELSE "ge")
    ELSE IF x.msg.mid = y.msg.mid THEN "ge"
    ELSE "TypeError"

Swap(h, i, j) == [h EXCEPT ![i] = h[j], ![j] = h[i]]

\* heapq _siftdown (positions are 0-based as in heapq; h is 1-based)
RECURSIVE SiftDown(_, _, _)
SiftDown(h, startpos, pos) ==
    IF pos > startpos
    THEN LET parentpos == (pos - 1) \div 2
             c == EntryLt(h[pos + 1], h[parentpos + 1])
         IN  IF c = "TypeError" THEN [h |-> h, ok |-> FALSE]
             ELSE IF c = "ge" THEN [h |-> h, ok |-> TRUE]
             ELSE SiftDown(Swap(h, pos + 1, parentpos + 1), startpos, parentpos)
    ELSE [h |-> h, ok |-> TRUE]

\* heapq _siftup: bubble the smaller child up to a leaf, then sift down
RECURSIVE SiftUp(_, _, _)
SiftUp(h, startpos, pos) ==
    LET endpos == Len(h)
        limit == endpos \div 2
        childpos == 2 * pos + 1
    IN  IF pos < limit
        THEN LET c == IF childpos + 1 < endpos
                      THEN EntryLt(h[childpos + 1], h[childpos + 2])
                      ELSE "lt"
                 child == IF c = "lt" THEN childpos ELSE childpos + 1
             IN  IF c = "TypeError" THEN [h |-> h, ok |-> FALSE]
                 ELSE SiftUp(Swap(h, child + 1, pos + 1), startpos, child)
        ELSE SiftDown(h, startpos, pos)

\* heapq.heappush: the item is appended before it is sifted, so it stays in
\* the list when the comparison raises
HeapPush(h, e) == SiftDown(Append(h, e), 0, Len(h))

\* heapq.heappop: the last item replaces the root and is sifted; when the
\* comparison raises, the item that was at the root is not returned and is
\* no longer in the list
HeapPop(h) ==
    LET n == Len(h)
        lastelt == h[n]
        h1 == SubSeq(h, 1, n - 1)
    IN  IF n = 1 THEN [h |-> <<>>, ok |-> TRUE, item |-> lastelt]
        ELSE LET r == SiftUp([h1 EXCEPT ![1] = lastelt], 0, 0)
             IN  [h |-> r.h, ok |-> r.ok, item |-> h1[1]]

(***************************************************************************)
(* AgentMessage payloads.  A payload is the dict                           *)
(* {'data': ..., 'requires_response': ...} built by to_message; data is    *)
(* one of the dicts the communicator builds, kept as its one key and the   *)
(* value under it.                                                         *)
(***************************************************************************)
Data(key, val) == [key |-> key, val |-> val]
EmptyDict == Data("none", "{}")
Payload(data, rr) == [data |-> data, requires_response |-> rr]
PlainPayload == Payload(EmptyDict, FALSE)

\* payload.get('response', {}) of _handle_message
GetResponse(data) == IF data.key = "response" THEN Data("value", data.val) ELSE EmptyDict

\* AgentMessage.from_message: the envelope read back from a bus Message
from_message(m) ==
    [sender |-> m.sender, receiver |-> m.receiver, message_type |-> m.message_type,
     payload |-> m.payload.data, correlation_id |-> m.correlation_id,
     priority |-> m.priority, requires_response |-> m.payload.requires_response]

\* AgentMessage.to_message: a new Message object, stamped now, default ttl
to_message(am, mid, t) ==
    Message(mid, am.message_type, am.sender, am.receiver,
            Payload(am.payload, am.requires_response), am.correlation_id,
            am.priority, t, DEFAULT_TTL)

AgentMessage(sender, receiver, type, data, cid, priority, rr) ==
    [sender |-> sender, receiver |-> receiver, message_type |-> type, payload |-> data,
     correlation_id |-> cid, priority |-> priority, requires_response |-> rr]

\* dict.pop(key, None)
Pop(d, k) == [x \in DOMAIN d \ {k} |-> d[x]]
\* d[key] = value
Put(d, k, v) == [x \in DOMAIN d \cup {k} |-> IF x = k THEN v ELSE d[x]]
EmptyMap == [x \in {} |-> 0]

EndsWithResponse(t) == t \in {"task_response", "collaboration_response"}

(***************************************************************************)
(* MessageBus.publish on a queue q and statistics st at time t.            *)
(***************************************************************************)
\* publish without its expiry check: every message is put on the queue
publish_unchecked(q, st, m, t) ==
    LET r == HeapPush(q, Entry(m, t))
    IN  IF r.ok
        THEN [queue |-> r.h, stats |-> [st EXCEPT !.messages_sent = @ + 1],
              outcome |-> "queued"]
        ELSE [queue |-> r.h, stats |-> st, outcome |-> "TypeError"]

publish(q, st, m, t) ==
    IF is_expired(m, t)
    THEN [queue |-> q, stats |-> [st EXCEPT !.messages_expired = @ + 1],
          outcome |-> "expired"]
    ELSE LET r == HeapPush(q, Entry(m, t))
         IN  IF r.ok
             THEN [queue |-> r.h, stats |-> [st EXCEPT !.messages_sent = @ + 1],
                   outcome |-> "queued"]
             ELSE [queue |-> r.h, stats |-> st, outcome |-> "TypeError"]

(***************************************************************************)
(* The response_handler closure of send_task_request / offer_collaboration *)
(* of call c: sets the call's future unless it is done.                    *)
(***************************************************************************)
response_handler(cs, c, value) ==
    [cs EXCEPT ![c] = [@ EXCEPT !.fired = @ + 1,
                                !.futDone = TRUE,
                                !.futResult = IF cs[c].futDone THEN @ ELSE value]]

(***************************************************************************)
(* AgentCommunicator._handle_message of communicator i on message m.       *)
(* S is the part of the state a callback can change.                       *)
(***************************************************************************)
handle_message(i, m, S) ==
    LET am == from_message(m)
        cm == S.comms[i]
        cid == am.correlation_id
    IN  IF am.message_type = "task_response"
        THEN IF cid \in DOMAIN cm.response_handlers
             THEN [S EXCEPT !.calls = response_handler(@, cm.response_handlers[cid],
                                                       GetResponse(am.payload))]
             ELSE S
        ELSE IF EndsWithResponse(am.message_type) /\ cid \in DOMAIN cm.response_handlers
        THEN [S EXCEPT !.calls = response_handler(@, cm.response_handlers[cid], am.payload)]
        ELSE IF am.message_type \in DOMAIN cm.collaboration_handlers
        THEN \* executor.submit raises RuntimeError after shutdown; it is caught
             IF cm.shutdown THEN S
             ELSE [S EXCEPT !.comms[i].tasks =
                      Append(@, [msg |-> am,
                                 handler |-> cm.collaboration_handlers[am.message_type]])]
        ELSE S

(***************************************************************************)
(* The dispatch worker's delivery of m to the subscriptions subs, in list  *)
(* order.  A callback that raises is caught and the loop goes on           *)
(* (_handle_broadcast, _handle_direct_message).                            *)
(***************************************************************************)
RaisingCallbacks == {"cbBad"}

Invocation(sub, m, t) ==
    [sid |-> sub.sid, cb |-> sub.cb, mid |-> m.mid, at |-> t,
     raised |-> sub.cb.kind = "ext" /\ sub.cb.name \in RaisingCallbacks]

\* the loop over a topic's callbacks without the try/except around the call:
\* the first callback that raises ends the loop
RECURSIVE InvokeCallbacksUncaught(_, _, _, _)
InvokeCallbacksUncaught(subs, m, t, S) ==
    IF subs = <<>> THEN S
    ELSE LET sub == Head(subs)
             inv == Invocation(sub, m, t)
             S1 == [S EXCEPT !.invoked = Append(@, inv)]
             S2 == IF sub.cb.kind = "comm" THEN handle_message(sub.cb.comm, m, S1) ELSE S1
         IN  IF inv.raised THEN S2 ELSE InvokeCallbacksUncaught(Tail(subs), m, t, S2)

RECURSIVE InvokeCallbacks(_, _, _, _)
InvokeCallbacks(subs, m, t, S) ==
    IF subs = <<>> THEN S
    ELSE LET sub == Head(subs)
             S1 == [S EXCEPT !.invoked = Append(@, Invocation(sub, m, t))]
             S2 == IF sub.cb.kind = "comm" THEN handle_message(sub.cb.comm, m, S1) ELSE S1
         IN  InvokeCallbacks(Tail(subs), m, t, S2)

\* _handle_broadcast
handle_broadcast(subs, m, t, S) ==
    InvokeCallbacks(subs[BroadcastTopic(m.message_type)], m, t, S)

\* _handle_direct_message without the receiver test: always as a broadcast
handle_direct_message_as_broadcast(subs, m, t, S) == handle_broadcast(subs, m, t, S)

\* _handle_direct_message
handle_direct_message(subs, m, t, S) ==
    IF m.receiver # NoReceiver
    THEN InvokeCallbacks(subs[AgentTopic(m.receiver)], m, t, S)
    ELSE handle_broadcast(subs, m, t, S)

\* _handle_response
handle_response(m, S) ==
    LET cid == m.correlation_id
    IN  IF cid \in DOMAIN S.response_futures
        THEN LET c == S.response_futures[cid]
             IN  [S EXCEPT !.response_futures = Pop(@, cid),
                           !.calls[c].futDone = TRUE,
                           !.calls[c].fired = @ + 1,
                           !.calls[c].futResult =
                               IF S.calls[c].futDone THEN @ ELSE m.payload.data]
        ELSE S

\* the routing of _process_messages
route(subs, m, t, S) ==
    IF m.message_type = "broadcast" THEN handle_broadcast(subs, m, t, S)
    ELSE IF m.message_type = "response" THEN handle_response(m, S)
    ELSE handle_direct_message(subs, m, t, S)

NoMsg == Message(0, "none", "none", NoReceiver, PlainPayload, <<"none", "none", 0>>, 0, 0, 0)
OpAt(op, outcome, m, invoked, put_at) ==
    [op |-> op, outcome |-> outcome, msg |-> m, invoked |-> invoked, at |-> now,
     put_at |-> put_at]
Op(op, outcome, m, invoked) == OpAt(op, outcome, m, invoked, now)

(***************************************************************************)
(* _process_messages: one turn of the worker's loop on a non-empty queue.  *)
(* A TypeError raised by the queue's get is caught by the loop's           *)
(* except Exception.                                                       *)
(***************************************************************************)
ProcessMessages ==
    /\ message_queue # <<>>
    /\ LET r == HeapPop(message_queue)
           m == r.item.msg
           S0 == [comms |-> comms, calls |-> calls, response_futures |-> response_futures,
                  invoked |-> <<>>]
           S == route(subscribers, m, now, S0)
       IN  /\ message_queue' = r.h
           /\ IF ~r.ok
              THEN /\ lastOp' = OpAt("get", "TypeError", m, <<>>, r.item.put_at)
                   /\ UNCHANGED <<stats, comms, calls, response_futures>>
              ELSE IF is_expired(m, now)
              THEN /\ stats' = [stats EXCEPT !.messages_expired = @ + 1]
                   /\ lastOp' = OpAt("get", "expired", m, <<>>, r.item.put_at)
                   /\ UNCHANGED <<comms, calls, response_futures>>
              ELSE /\ stats' = [stats EXCEPT !.messages_received = @ + 1]
                   /\ comms' = S.comms
                   /\ calls' = S.calls
                   /\ response_futures' = S.response_futures
                   /\ lastOp' = OpAt("get", "dispatched", m, S.invoked, r.item.put_at)
    /\ UNCHANGED <<safety, eng, now, subscribers, nextMid, orch>>

(***************************************************************************)
(* MessageBus.publish(message) called by a thread outside the bus.         *)
(***************************************************************************)
Publish(m) ==
    /\ m.mid = nextMid
    /\ LET r == publish(message_queue, stats, m, now)
       IN  /\ message_queue' = r.queue
           /\ stats' = r.stats
           /\ lastOp' = Op("publish", r.outcome, m, <<>>)
    /\ nextMid' = nextMid + 1
    /\ UNCHANGED <<safety, eng, now, subscribers, response_futures, comms, calls, orch>>

SubscribersCount(subs) == LET RECURSIVE Sum(_)
                              Sum(T) == IF T = {} THEN 0
                                        ELSE LET x == CHOOSE y \in T : TRUE
                                             IN  Len(subs[x]) + Sum(T \ {x})
                          IN  Sum(DOMAIN subs)

\* MessageBus.subscribe(topic, callback): subscription_id = f"{topic}_{id(callback)}"
SubscriptionId(topic, cb) == <<topic, cb>>

subscribe(subs, topic, cb) ==
    [subs EXCEPT ![topic] = Append(@, [sid |-> SubscriptionId(topic, cb), cb |-> cb])]

Subscribe(topic, cb) ==
    /\ subscribers' = subscribe(subscribers, topic, cb)
    /\ stats' = [stats EXCEPT !.subscribers_count = SubscribersCount(subscribers')]
    /\ lastOp' = Op("subscribe", "ok", NoMsg, <<>>)
    /\ UNCHANGED <<safety, eng, now, message_queue, response_futures, comms, calls, nextMid, orch>>

\* MessageBus.unsubscribe(subscription_id)
Unsubscribe(sid) ==
    /\ subscribers' = [tp \in DOMAIN subscribers |->
                          LET Keep(x) == x.sid # sid IN SelectSeq(subscribers[tp], Keep)]
    /\ stats' = [stats EXCEPT !.subscribers_count = SubscribersCount(subscribers')]
    /\ lastOp' = Op("unsubscribe", "ok", NoMsg, <<>>)
    /\ UNCHANGED <<safety, eng, now, message_queue, response_futures, comms, calls, nextMid, orch>>

\* the passing of time between two steps, up to time maxTime
TickTo(maxTime) ==
    /\ now < maxTime
    /\ now' = now + 1
    /\ UNCHANGED <<safety, eng, orch, subscribers, message_queue, response_futures, stats, comms, calls,
                   nextMid, lastOp>>

(***************************************************************************)
(* AgentOrchestrator: the state built by __init__ .  The registry          *)
(* self.agents is a dict, kept here as the list of its values in insertion *)
(* order; an AgentInfo is told from another of the same name by its        *)
(* communicator.  A lock is "free" or the thread holding it.  A thread's   *)
(* frame is the orchestrator method it is in: the agent it names, the      *)
(* AgentInfo it holds (by its communicator), the request it has issued,    *)
(* what it still has to do, and how the method ended.                      *)
(***************************************************************************)
OThreads == {"t1", "t2"}
Free == "free"

AgentInfo(name, comm) == [name |-> name, status |-> "idle", communicator |-> comm]

IdleFrame ==
    [op |-> "none", pc |-> "idle", agent |-> "none", info |-> 0, call |-> 0,
     outcome |-> "none", raised |-> "none", value |-> Data("none", "none"), todo |-> <<>>,
     session |-> <<>>, at |-> 0]

NewOrchestrator ==
    [agents |-> <<>>,
     agent_lock |-> Free,
     collaborations |-> EmptyMap,
     collaboration_lock |-> Free,
     stats |-> [total_tasks |-> 0, successful_tasks |-> 0, failed_tasks |-> 0,
                active_collaborations |-> 0, total_collaborations |-> 0],
     threads |-> [t \in OThreads |-> IdleFrame],
     started |-> 0]

\* the keys of self.agents
AgentNames(agents) == {agents[k].name : k \in 1..Len(agents)}
\* agent_name in self.agents
is_registered(agents, a) == a \in AgentNames(agents)
\* self.agents[agent_name]
GetAgent(agents, a) == agents[CHOOSE k \in 1..Len(agents) : agents[k].name = a]
\* self.agents[agent_name] = agent_info
SetAgent(agents, info) ==
    IF is_registered(agents, info.name)
    THEN [k \in 1..Len(agents) |-> IF agents[k].name = info.name THEN info ELSE agents[k]]
    ELSE Append(agents, info)
\* del self.agents[agent_name]
DelAgent(agents, a) == LET Keep(x) == x.name # a IN SelectSeq(agents, Keep)
\* agent_info.status = status, on the AgentInfo object whose communicator is comm
SetStatus(agents, comm, status) ==
    [k \in 1..Len(agents) |->
        IF agents[k].communicator = comm THEN [agents[k] EXCEPT !.status = status]
        ELSE agents[k]]

(***************************************************************************)
(* WorkflowEngine (core/workflow_engine/workflow_engine.py): the values    *)
(* that step configurations, contexts and results hold.  Every value is a  *)
(* record tagged with its Python type.  A str is kept as the sequence of   *)
(* its lexical pieces: the markers the engine searches for, each one       *)
(* piece, and the words between them, which contain no marker; the empty   *)
(* str is the empty sequence.                                              *)
(***************************************************************************)
NoneV == [kind |-> "none"]
IntV(n) == [kind |-> "int", n |-> n]
BoolV(b) == [kind |-> "bool", b |-> b]
StrV(pieces) == [kind |-> "str", s |-> pieces]
ListV(items) == [kind |-> "list", items |-> items]
DictV(entries) == [kind |-> "dict", entries |-> entries]
Word(w) == StrV(<<w>>)

Markers == {"{{", "}}", "${", "}", "==", "!=", ".", " "}

\* the str a sequence of pieces stands for; the keys of dicts are such strs
RECURSIVE Join(_)
Join(pieces) == IF pieces = <<>> THEN "" ELSE Head(pieces) \o Join(Tail(pieces))

\* bool(value)
Truthy(v) ==
    CASE v.kind = "none" -> FALSE
      [] v.kind = "int" -> v.n # 0
      [] v.kind = "bool" -> v.b
      [] v.kind = "str" -> v.s # <<>>
      [] v.kind = "list" -> v.items # <<>>
      [] v.kind = "dict" -> DOMAIN v.entries # {}

\* d.get(key, default) for a dict value d
Get(d, key, default) == IF key \in DOMAIN d.entries THEN d.entries[key] ELSE default

\* d[key] = value
Set(d, key, value) == DictV(Put(d.entries, key, value))

EmptyDictV == DictV(EmptyMap)

\* str.strip() on pieces
RECURSIVE LStrip(_)
LStrip(pieces) ==
    IF pieces # <<>> /\ Head(pieces) = " " THEN LStrip(Tail(pieces)) ELSE pieces

RECURSIVE RStrip(_)
RStrip(pieces) ==
    IF pieces # <<>> /\ pieces[Len(pieces)] = " "
    THEN RStrip(SubSeq(pieces, 1, Len(pieces) - 1)) ELSE pieces

Strip(pieces) == RStrip(LStrip(pieces))

\* value.startswith('{{') and value.endswith('}}'), for a str of at least
\* four characters; '{{}' and the like are not among the strs explored
IsTemplate(pieces) ==
    /\ Len(pieces) >= 2
    /\ pieces[1] = "{{"
    /\ pieces[Len(pieces)] = "}}"

\* value[2:-2].strip() of a template
TemplateName(pieces) == Join(Strip(SubSeq(pieces, 2, Len(pieces) - 1)))

\* value.startswith('${') and value.endswith('}')
IsPath(pieces) ==
    /\ Len(pieces) >= 2
    /\ pieces[1] = "${"
    /\ pieces[Len(pieces)] \in {"}", "}}"}

\* value[2:-1].strip(): a final '}}' loses its last character only
PathPieces(pieces) ==
    Strip(SubSeq(pieces, 2, Len(pieces) - 1)
          \o (IF pieces[Len(pieces)] = "}}" THEN <<"}">> ELSE <<>>))

\* var_path.split('.'): the keys between the dots
RECURSIVE SplitDots(_, _)
SplitDots(pieces, acc) ==
    IF pieces = <<>> THEN <<acc>>
    ELSE IF Head(pieces) = "." THEN <<acc>> \o SplitDots(Tail(pieces), "")
    ELSE SplitDots(Tail(pieces), acc \o Head(pieces))

\* _get_nested_value(data, path)
RECURSIVE get_nested_value(_, _)
get_nested_value(current, path) ==
    IF path = <<>> THEN current
    ELSE IF current.kind = "dict" /\ Head(path) \in DOMAIN current.entries
    THEN get_nested_value(current.entries[Head(path)], Tail(path))
    ELSE NoneV

\* Python's == on values: a bool equals the int it counts as
AsNumber(v) == IF v.kind = "bool" THEN IntV(IF v.b THEN 1 ELSE 0) ELSE v
PyEq(a, b) == AsNumber(a).kind = AsNumber(b).kind /\ AsNumber(a) = AsNumber(b)

(***************************************************************************)
(* Step configurations are dicts; _parse_step_config turns one into a      *)
(* WorkflowStep.  config['name'] raises KeyError when the key is missing.  *)
(***************************************************************************)
StepTypes == {"task", "parallel", "conditional", "loop"}

\* step_type_map.get(config.get('step_type', 'task'), StepType.TASK)
step_type_of(config) ==
    LET t == Get(config, "step_type", Word("task"))
    IN  IF t.kind = "str" /\ Join(t.s) \in StepTypes THEN Join(t.s) ELSE "task"

RECURSIVE parse_raises(_)
parse_raises(config) ==
    \/ "name" \notin DOMAIN config.entries
    \/ /\ step_type_of(config) = "parallel"
       /\ "parallel" \in DOMAIN config.entries
       /\ \E k \in 1..Len(config.entries["parallel"].items) :
              parse_raises(config.entries["parallel"].items[k])

RECURSIVE parse_step_config(_)
parse_step_config(config) ==
    [name |-> config.entries["name"],
     step_type |-> step_type_of(config),
     agent |-> Get(config, "agent", NoneV),
     action |-> Get(config, "action", NoneV),
     parameters |-> Get(config, "parameters", EmptyDictV),
     dependencies |-> Get(config, "dependencies", ListV(<<>>)),
     condition |-> Get(config, "condition", NoneV),
     parallel_steps |->
         IF step_type_of(config) = "parallel" /\ "parallel" \in DOMAIN config.entries
         THEN [k \in 1..Len(config.entries["parallel"].items) |->
                   parse_step_config(config.entries["parallel"].items[k])]
         ELSE <<>>,
     loop_config |-> Get(config, "loop", NoneV)]

\* step.name as a str
NameOf(step) == Join(step.name.s)

(***************************************************************************)
(* The dispatcher: the object given to WorkflowEngine(agent_orchestrator), *)
(* of which the engine calls execute_task(agent, task) only.  What it does *)
(* depends on the agent: it returns a result naming the agent and the      *)
(* action, it raises, or it does not return within the 300 s a Parallel    *)
(* step waits for a branch; the agent "picky" raises on the task whose     *)
(* context holds item = 0 and returns a result on any other.               *)
(***************************************************************************)
DispatcherBehaviour(agent, task) ==
    CASE agent = "bad" -> "raise"
      [] agent = "slow" -> "hang"
      [] agent = "picky" -> IF PyEq(Get(task.context, "item", NoneV), IntV(0))
                            THEN "raise" ELSE "ok"
      [] OTHER -> "ok"

DispatcherError == "agent failed"

DispatcherResult(agent, task) == DictV(("by" :> Word(agent)) @@ ("action" :> task.action))

\* the outcome of a piece of the engine's code: it returned value, it raised
\* an exception whose str() is error, or it never returned; dispatched lists
\* the execute_task calls it made
Returned(value, dispatched) ==
    [state |-> "ok", value |-> value, error |-> "", dispatched |-> dispatched]
Raised(error, dispatched) ==
    [state |-> "raise", value |-> NoneV, error |-> error, dispatched |-> dispatched]
Hung(dispatched) ==
    [state |-> "hang", value |-> NoneV, error |-> "", dispatched |-> dispatched]

\* parameters passed on as they are configured
resolve_parameters_verbatim(parameters, context) == parameters

\* _resolve_parameters
resolve_parameters(parameters, context) ==
    DictV([key \in DOMAIN parameters.entries |->
              LET value == parameters.entries[key]
              IN  IF value.kind = "str" /\ IsTemplate(value.s)
                  THEN Get(context, TemplateName(value.s), value)
                  ELSE IF value.kind = "str" /\ IsPath(value.s)
                  THEN get_nested_value(context, SplitDots(PathPieces(value.s), ""))
                  ELSE value])

\* _execute_task_step; orchestrator tells whether the engine was given a
\* dispatcher
execute_task_step(orchestrator, step, context) ==
    IF ~orchestrator THEN Raised("No agent orchestrator configured", <<>>)
    ELSE IF ~Truthy(step.agent) THEN Raised("Step has no agent specified", <<>>)
    ELSE LET agent == Join(step.agent.s)
             task == [agent |-> agent, action |-> step.action,
                      parameters |-> resolve_parameters(step.parameters, context),
                      context |-> context]
             behaviour == DispatcherBehaviour(agent, task)
         IN  CASE behaviour = "ok" -> Returned(DispatcherResult(agent, task), <<task>>)
               [] behaviour = "raise" -> Raised(DispatcherError, <<task>>)
               [] behaviour = "hang" -> Hung(<<task>>)

\* int(value) succeeds on these words among the strs explored
IntWords == ("0" :> 0) @@ ("1" :> 1) @@ ("2" :> 2) @@ ("42" :> 42)

\* _resolve_condition_value; no str explored is a float literal
resolve_condition_value(pieces, context) ==
    IF IsTemplate(pieces) THEN Get(context, TemplateName(pieces), NoneV)
    ELSE IF IsPath(pieces) THEN get_nested_value(context, SplitDots(PathPieces(pieces), ""))
    ELSE IF Join(pieces) \in DOMAIN IntWords THEN IntV(IntWords[Join(pieces)])
    ELSE IF Join(pieces) \in {"true", "false"} THEN BoolV(Join(pieces) = "true")
    ELSE StrV(pieces)

Contains(pieces, marker) == \E k \in 1..Len(pieces) : pieces[k] = marker
FirstIndex(pieces, marker) == CHOOSE k \in 1..Len(pieces) :
    pieces[k] = marker /\ \A j \in 1..(k - 1) : pieces[j] # marker

\* the two sides of condition.split(marker, 1), stripped and resolved
Sides(pieces, marker, context) ==
    LET k == FirstIndex(pieces, marker)
    IN  [left |-> resolve_condition_value(Strip(SubSeq(pieces, 1, k - 1)), context),
         right |-> resolve_condition_value(Strip(SubSeq(pieces, k + 1, Len(pieces))), context)]

\* the try block of _evaluate_condition: a condition that is not a str has no
\* startswith, which raises AttributeError
condition_raises(condition, context) == condition.kind # "str"

condition_value(condition, context) ==
    LET pieces == condition.s
    IN  IF IsTemplate(pieces) THEN Truthy(Get(context, TemplateName(pieces), NoneV))
        ELSE IF Contains(pieces, "==")
        THEN PyEq(Sides(pieces, "==", context).left, Sides(pieces, "==", context).right)
        ELSE IF Contains(pieces, "!=")
        THEN ~PyEq(Sides(pieces, "!=", context).left, Sides(pieces, "!=", context).right)
        ELSE Truthy(Get(context, Join(pieces), BoolV(FALSE)))

\* _evaluate_condition: except Exception: return False
evaluate_condition(condition, context) ==
    IF condition_raises(condition, context) THEN FALSE ELSE condition_value(condition, context)

Skipped == DictV(("skipped" :> BoolV(TRUE)) @@ ("reason" :> Word("condition_not_met")))

\* a Conditional step that dispatches whatever its condition says
execute_conditional_step_unconditional(orchestrator, step, context) ==
    execute_task_step(orchestrator, step, context)

\* _execute_conditional_step: what the task step raises inside the try block
\* is raised again as RuntimeError("Failed to evaluate condition ...")
execute_conditional_step(orchestrator, step, context) ==
    IF ~Truthy(step.condition) THEN Raised("Conditional step has no condition", <<>>)
    ELSE IF evaluate_condition(step.condition, context)
    THEN LET r == execute_task_step(orchestrator, step, context)
         IN  IF r.state = "raise"
             THEN Raised("Failed to evaluate condition: " \o r.error, r.dispatched)
             ELSE r
    ELSE Returned(Skipped, <<>>)

LoopError(error, item, index) ==
    DictV(("error" :> Word(error)) @@ ("item" :> item) @@ ("index" :> IntV(index)))

\* a loop context whose loop_index counts from 1
loop_context_from_one(context, loop_var, item, i) ==
    Set(Set(context, loop_var, item), "loop_index", IntV(i + 1))

\* loop_context = context.copy(); loop_context[loop_var] = item;
\* loop_context['loop_index'] = i
loop_context_of(context, loop_var, item, i) ==
    Set(Set(context, loop_var, item), "loop_index", IntV(i))

\* the iterations i, i + 1, ... of the for loop of _execute_loop_step, index
\* counted from 0 as enumerate does; results holds the slots filled so far
RECURSIVE loop_iterations(_, _, _, _, _, _, _, _)
loop_iterations(orchestrator, step, context, loop_var, items, i, results, dispatched) ==
    IF i >= Len(items) THEN Returned(ListV(results), dispatched)
    ELSE LET item == items[i + 1]
             loop_context == loop_context_of(context, loop_var, item, i)
             r == execute_task_step(orchestrator, step, loop_context)
             slot == IF r.state = "ok" THEN r.value ELSE LoopError(r.error, item, i)
         IN  IF r.state = "hang" THEN Hung(dispatched \o r.dispatched)
             ELSE loop_iterations(orchestrator, step, context, loop_var, items, i + 1,
                                  Append(results, slot), dispatched \o r.dispatched)

\* loop_items after `if not isinstance(loop_items, list)`: a str is looked
\* up in the context, with [] as default
loop_items_of(loop_config, context) ==
    LET given == Get(loop_config, "items", ListV(<<>>))
    IN  IF given.kind = "list" THEN given
        ELSE IF given.kind = "str" THEN Get(context, Join(given.s), ListV(<<>>))
        ELSE ListV(<<>>)

\* _execute_loop_step: enumerate() raises TypeError on what is not iterable;
\* no item source explored resolves to a str or a dict
execute_loop_step(orchestrator, step, context) ==
    IF ~Truthy(step.loop_config) THEN Raised("Loop step has no loop configuration", <<>>)
    ELSE LET loop_var == Join(Get(step.loop_config, "variable", Word("item")).s)
             loop_items == loop_items_of(step.loop_config, context)
         IN  IF loop_items.kind # "list" THEN Raised("object is not iterable", <<>>)
             ELSE loop_iterations(orchestrator, step, context, loop_var, loop_items.items,
                                  0, <<>>, <<>>)

ErrorSlot(error) == DictV("error" :> Word(error))

RECURSIVE execute_step(_, _, _)

\* the branches k, k + 1, ... of _execute_parallel_step: each runs
\* _execute_step on a copy of the context in a thread of the pool;
\* future.result(timeout=300) raises TimeoutError, whose str() is empty, for
\* a branch that does not return
RECURSIVE parallel_branches(_, _, _, _, _, _)
parallel_branches(orchestrator, branches, context, k, results, dispatched) ==
    IF k > Len(branches) THEN Returned(results, dispatched)
    ELSE LET r == execute_step(orchestrator, branches[k], context)
             slot == CASE r.state = "ok" -> r.value
                       [] r.state = "raise" -> ErrorSlot(r.error)
                       [] r.state = "hang" -> DictV("error" :> StrV(<<>>))
         IN  parallel_branches(orchestrator, branches, context, k + 1,
                               Set(results, NameOf(branches[k]), slot),
                               dispatched \o r.dispatched)

\* _execute_parallel_step
execute_parallel_step(orchestrator, step, context) ==
    IF step.parallel_steps = <<>> THEN Returned(ListV(<<>>), <<>>)
    ELSE parallel_branches(orchestrator, step.parallel_steps, context, 1, EmptyDictV, <<>>)

\* _execute_step
execute_step(orchestrator, step, context) ==
    CASE step.step_type = "task" -> execute_task_step(orchestrator, step, context)
      [] step.step_type = "parallel" -> execute_parallel_step(orchestrator, step, context)
      [] step.step_type = "conditional" -> execute_conditional_step(orchestrator, step, context)
      [] step.step_type = "loop" -> execute_loop_step(orchestrator, step, context)

(***************************************************************************)
(* WorkflowEngine: the state built by __init__ and the WorkflowExecution   *)
(* objects.  executions lists the objects created so far; active_workflows *)
(* maps a workflow id to the index of one of them.  started, dispatched    *)
(* and cancelled_at are history: the names of the steps begun, the         *)
(* execute_task calls made, and the number of steps that had begun when    *)
(* cancel_workflow returned True for the execution.                        *)
(***************************************************************************)
WThreads == {"w1", "w2"}
NoTime == -1
NoCancel == -1

WorkflowExecution(workflow_id, workflow_config) ==
    [workflow_id |-> workflow_id, workflow_config |-> workflow_config, status |-> "pending",
     start_time |-> NoTime, end_time |-> NoTime, current_step |-> NoneV,
     results |-> EmptyDictV, errors |-> <<>>, context |-> EmptyDictV,
     started |-> <<>>, dispatched |-> <<>>, cancelled_at |-> NoCancel]

\* WorkflowExecution.to_dict
to_dict(execution) ==
    [workflow_id |-> execution.workflow_id, status |-> execution.status,
     start_time |-> execution.start_time, end_time |-> execution.end_time,
     current_step |-> execution.current_step, results |-> execution.results,
     errors |-> execution.errors, context |-> execution.context]

NoResult == [success |-> FALSE, workflow_id |-> "", result |-> NoneV, error |-> ""]

IdleRun ==
    [pc |-> "idle", execution |-> 0, workflow_id |-> "", input |-> EmptyDictV,
     steps |-> <<>>, context |-> EmptyDictV, outcome |-> "none", result |-> NoResult]

NoCall == [op |-> "none", workflow_id |-> "", found |-> FALSE, returned |-> FALSE,
           execution |-> 0, status |-> "none"]

new_engine(orchestrator) ==
    [orchestrator |-> orchestrator, active_workflows |-> EmptyMap,
     workflow_definitions |-> EmptyMap, executions |-> <<>>,
     threads |-> [t \in WThreads |-> IdleRun], last |-> NoCall]

(***************************************************************************)
(* The idempotency guard (core/workflow_safety.py) and the module-level    *)
(* objects it works with: the registry workflows_safety, the MemoryStore   *)
(* `memory` (core/memory.py) and the RateLimiter `limiter`                 *)
(* (core/rate_limiter.py).                                                 *)
(*                                                                         *)
(* A Python value of a step's inputs is written as its repr ("1", "[1]",   *)
(* "(1,)"); inputs is a dict with the one key "a".  A str used as a dedupe *)
(* key or as a key of the memory store is a record: the text the caller    *)
(* gave, the hexdigest of a JSON text (sha256 taken as injective) or       *)
(* f"step_{n}".                                                            *)
(***************************************************************************)
SThreads == {"g1", "g2"}
NoInputs == [a |-> ""]
GivenKey(text) == [form |-> "given", text |-> text, n |-> 0, json |-> NoInputs]
HexDigest(json) == [form |-> "sha256", text |-> "", n |-> 0, json |-> json]
StepKey(n) == [form |-> "step_", text |-> "", n |-> n, json |-> NoInputs]
\* None, and "" as well: `if not dedupe_key` takes both for no key
NoKey == GivenKey("")
NoOutputs == [result |-> 0, processed_at |-> 0]
NoToken == 0

\* what a call of the guard gave its caller: the guard of get_workflow_safety,
\* the _GeneratorContextManager that @contextmanager wraps around the tuple
\* execute_step returns, the dict of get_outbox
NoReturn == [kind |-> "none", guard |-> 0, is_replay |-> FALSE, outputs |-> NoOutputs,
             outbox |-> EmptyMap]

IdleCall ==
    [op |-> "none", pc |-> "idle", workflow_id |-> "", guard |-> 0, step_id |-> "",
     inputs |-> NoInputs, dedupe_key |-> NoKey, job_token |-> NoToken,
     outputs |-> NoOutputs, outcome |-> "none", raised |-> "none", value |-> NoReturn,
     began |-> 0, count |-> 0]

\* WorkflowSafety.__init__; int(time.time()) and datetime.now() are the clock
WorkflowSafety(workflow_id, t) ==
    [workflow_id |-> workflow_id, journal |-> <<>>, outbox |-> EmptyMap, seed |-> t,
     clock_injected |-> t]

\* the module after import: workflows_safety = {}, memory = MemoryStore() with
\* an empty _store and no access log, limiter = RateLimiter() with empty
\* windows.  guards are the WorkflowSafety objects constructed so far, runs the
\* invocations of _simulate_step (which call of which thread made them) and
\* completed the execute_step calls that have ended, in order.
NewSafety ==
    [workflows_safety |-> EmptyMap, guards |-> <<>>, store |-> EmptyMap,
     access_logs |-> <<>>, windows |-> EmptyMap, next_token |-> 1, runs |-> <<>>,
     completed |-> <<>>, threads |-> [t \in SThreads |-> IdleCall]]

(***************************************************************************)
(* The bus as get_message_bus() returns it: constructed and started, no    *)
(* subscriber, nothing queued.                                             *)
(***************************************************************************)
Init ==
    /\ now = 0
    /\ subscribers = [tp \in Topics |-> <<>>]
    /\ message_queue = <<>>
    /\ response_futures = EmptyMap
    /\ stats = [messages_sent |-> 0, messages_received |-> 0, messages_expired |-> 0,
                subscribers_count |-> 0]
    /\ comms = <<>>
    /\ calls = <<>>
    /\ nextMid = 1
    /\ lastOp = Op("init", "ok", NoMsg, <<>>)
    /\ orch = NewOrchestrator
    /\ eng = new_engine(FALSE)
    /\ safety = NewSafety

(***************************************************************************)
(* Calls.  A call record is the frame of one send_request,                 *)
(* send_task_request or offer_collaboration: its future, what it           *)
(* registered, how its publish went ("none" when it ended before it        *)
(* registered anything) and how it ended.                                  *)
(***************************************************************************)
NoValue == Data("none", "none")
Coroutine == Data("coroutine", "wait_for")

Call(kind, i, cid, timeout, pc, outcome, published) ==
    [kind |-> kind, comm |-> i, cid |-> cid, start |-> now, timeout |-> timeout,
     pc |-> pc, outcome |-> outcome, value |-> NoValue, published |-> published,
     futDone |-> FALSE, futResult |-> NoValue, fired |-> 0, ended |-> now]

(***************************************************************************)
(* MessageBus.send_request(message, timeout), up to the wait.  hasLoop     *)
(* tells whether asyncio.Future() finds an event loop in the calling       *)
(* thread; without one it raises RuntimeError.  publish is called outside  *)
(* the try block.                                                          *)
(***************************************************************************)
SendRequest(m, timeout, hasLoop) ==
    /\ m.mid = nextMid
    /\ nextMid' = nextMid + 1
    /\ LET c == Len(calls) + 1
           cid == m.correlation_id
           r == publish(message_queue, stats, m, now)
       IN  IF m.message_type # "request"
           THEN /\ calls' = Append(calls, Call("send_request", 0, cid, timeout, "done",
                                               "ValueError", "none"))
                /\ UNCHANGED <<message_queue, stats, response_futures, lastOp>>
           ELSE IF ~hasLoop
           THEN /\ calls' = Append(calls, Call("send_request", 0, cid, timeout, "done",
                                               "RuntimeError", "none"))
                /\ UNCHANGED <<message_queue, stats, response_futures, lastOp>>
           ELSE /\ response_futures' = Put(response_futures, cid, c)
                /\ message_queue' = r.queue
                /\ stats' = r.stats
                /\ lastOp' = Op("publish", r.outcome, m, <<>>)
                /\ calls' = Append(calls,
                       IF r.outcome = "TypeError"
                       THEN Call("send_request", 0, cid, timeout, "done", "TypeError", r.outcome)
                       ELSE Call("send_request", 0, cid, timeout, "waiting", "none", r.outcome))
    /\ UNCHANGED <<safety, eng, now, subscribers, comms, orch>>

(***************************************************************************)
(* send_request, the wait: concurrent.futures.wait is handed an            *)
(* asyncio.Future, which has no _condition, and raises AttributeError at   *)
(* once; the except block pops the future and re-raises.                   *)
(***************************************************************************)
SendRequestWait(c) ==
    /\ calls[c].kind = "send_request"
    /\ calls[c].pc = "waiting"
    /\ response_futures' = Pop(response_futures, calls[c].cid)
    /\ calls' = [calls EXCEPT ![c].pc = "done", ![c].outcome = "AttributeError",
                              ![c].ended = now]
    /\ UNCHANGED <<safety, eng, now, subscribers, message_queue, stats, comms, nextMid, lastOp, orch>>

(***************************************************************************)
(* AgentCommunicator.__init__                                              *)
(***************************************************************************)
new_communicator(a) ==
    [agent_name |-> a, response_handlers |-> EmptyMap, collaboration_handlers |-> EmptyMap,
     tasks |-> <<>>, shutdown |-> FALSE]

NewCommunicator(a) ==
    /\ comms' = Append(comms, new_communicator(a))
    /\ subscribers' = subscribe(subscribers, AgentTopic(a), CommCallback(Len(comms) + 1))
    /\ stats' = [stats EXCEPT !.subscribers_count = SubscribersCount(subscribers')]
    /\ lastOp' = Op("subscribe", "ok", NoMsg, <<>>)
    /\ UNCHANGED <<safety, eng, now, message_queue, response_futures, calls, nextMid, orch>>

\* register_task_handler / register_collaboration_handler; h tells how the
\* handler behaves when it is called
RegisterHandler(i, type, h) ==
    /\ comms' = [comms EXCEPT ![i].collaboration_handlers = Put(@, type, h)]
    /\ UNCHANGED <<safety, eng, orch, now, subscribers, message_queue, response_futures, stats, calls,
                   nextMid, lastOp>>

\* correlation_id = f"{self.agent_name}_{kind}_{int(time.time() * 1000)}"
CorrelationId(name, kind, t) == <<name, kind, t>>

(***************************************************************************)
(* send_task_request and offer_collaboration up to `return                 *)
(* asyncio.wait_for(...)`: the envelope, the future, the registration of   *)
(* response_handler and the publish, which is outside the try block.       *)
(***************************************************************************)
RequestBegin(i, kind, idKind, type, target, data, priority, timeout, hasLoop) ==
    /\ LET c == Len(calls) + 1
           cid == CorrelationId(comms[i].agent_name, idKind, now)
           am == AgentMessage(comms[i].agent_name, target, type, data, cid, priority, TRUE)
           m == to_message(am, nextMid, now)
           r == publish(message_queue, stats, m, now)
       IN  IF ~hasLoop
           THEN /\ calls' = Append(calls, Call(kind, i, cid, timeout, "done",
                                               "RuntimeError", "none"))
                /\ UNCHANGED <<message_queue, stats, comms, lastOp, nextMid>>
           ELSE /\ comms' = [comms EXCEPT ![i].response_handlers = Put(@, cid, c)]
                /\ nextMid' = nextMid + 1
                /\ message_queue' = r.queue
                /\ stats' = r.stats
                /\ lastOp' = Op("publish", r.outcome, m, <<>>)
                /\ calls' = Append(calls,
                       IF r.outcome = "TypeError"
                       THEN Call(kind, i, cid, timeout, "done", "TypeError", r.outcome)
                       ELSE Call(kind, i, cid, timeout, "waiting", "none", r.outcome))
    /\ UNCHANGED <<safety, eng, now, subscribers, response_futures>>

SendTaskRequest(i, target, task, priority, timeout, hasLoop) ==
    RequestBegin(i, "send_task_request", "task", "task_request", target,
                 Data("task", task), priority, timeout, hasLoop)

COLLABORATION_TIMEOUT == 60

OfferCollaboration(i, target, ctype, priority, hasLoop) ==
    RequestBegin(i, "offer_collaboration", "collab", "collaboration_offer", target,
                 Data("collaboration_type", ctype), priority, COLLABORATION_TIMEOUT, hasLoop)

(***************************************************************************)
(* `return asyncio.wait_for(future, timeout)` and the finally block:       *)
(* wait_for is a coroutine function, so the call builds a coroutine object *)
(* without waiting and the method returns it; the finally block pops the   *)
(* handler.                                                                *)
(***************************************************************************)
RequestReturn(c) ==
    /\ calls[c].kind \in {"send_task_request", "offer_collaboration"}
    /\ calls[c].pc = "waiting"
    /\ comms' = [comms EXCEPT ![calls[c].comm].response_handlers = Pop(@, calls[c].cid)]
    /\ calls' = [calls EXCEPT ![c].pc = "done", ![c].outcome = "returned",
                              ![c].value = Coroutine, ![c].ended = now]
    /\ UNCHANGED <<safety, eng, now, subscribers, message_queue, response_futures, stats, nextMid,
                   lastOp>>

(***************************************************************************)
(* AgentCommunicator._process_request, run by a thread of the executor on  *)
(* the k-th submitted task of communicator i.  The response goes out       *)
(* through send_task_response or, for an offer, as a                       *)
(* collaboration_response; a publish that raises inside the try block is   *)
(* handled like a handler that raised.                                     *)
(***************************************************************************)
HandlerResult == Data("value", "done")
ErrorResponse == Data("value", "error")

\* the envelope built by send_task_response
TaskResponse(name, am, response) ==
    AgentMessage(name, am.sender, "task_response", Data("response", response.val),
                 am.correlation_id, am.priority, FALSE)

\* the envelope built for a collaboration_offer
CollaborationResponse(name, am, response) ==
    AgentMessage(name, am.sender, "collaboration_response", response,
                 am.correlation_id, am.priority, FALSE)

RemoveAt(seq, k) == SubSeq(seq, 1, k - 1) \o SubSeq(seq, k + 1, Len(seq))

ProcessRequest(i, k) ==
    /\ k \in 1..Len(comms[i].tasks)
    /\ LET task == comms[i].tasks[k]
           am == task.msg
           name == comms[i].agent_name
           \* the try block
           first == IF task.handler = "raises" \/ ~am.requires_response THEN <<>>
                    ELSE IF am.message_type = "task_request"
                    THEN <<TaskResponse(name, am, HandlerResult)>>
                    ELSE IF am.message_type = "collaboration_offer"
                    THEN <<CollaborationResponse(name, am, HandlerResult)>>
                    ELSE <<>>
           r1 == IF first = <<>>
                 THEN [queue |-> message_queue, stats |-> stats, outcome |-> "none"]
                 ELSE publish(message_queue, stats, to_message(first[1], nextMid, now), now)
           mid2 == nextMid + Len(first)
           failed == task.handler = "raises" \/ r1.outcome = "TypeError"
           \* the except block
           second == IF failed /\ am.requires_response /\ am.message_type = "task_request"
                     THEN <<TaskResponse(name, am, ErrorResponse)>>
                     ELSE <<>>
           r2 == IF second = <<>> THEN r1
                 ELSE publish(r1.queue, r1.stats, to_message(second[1], mid2, now), now)
       IN  /\ message_queue' = r2.queue
           /\ stats' = r2.stats
           /\ nextMid' = mid2 + Len(second)
           /\ lastOp' = IF second # <<>>
                        THEN Op("publish", r2.outcome, to_message(second[1], mid2, now), <<>>)
                        ELSE IF first # <<>>
                        THEN Op("publish", r1.outcome, to_message(first[1], nextMid, now), <<>>)
                        ELSE lastOp
    /\ comms' = [comms EXCEPT ![i].tasks = RemoveAt(@, k)]
    /\ UNCHANGED <<safety, eng, now, subscribers, response_futures, calls, orch>>

(***************************************************************************)
(* AgentOrchestrator.  Each method is run by a caller thread t, in steps   *)
(* at whose ends another thread may run: where the method takes a lock,    *)
(* where it calls out (the knowledge graph, a communicator's request, an   *)
(* executor's shutdown) and where that call returns.                       *)
(***************************************************************************)
Frame(t) == orch.threads[t]
CanStart(t) == Frame(t).pc \in {"idle", "done"}
BeginFrame(op, a) == [IdleFrame EXCEPT !.op = op, !.agent = a, !.at = now]
Done(f, outcome, value) == [f EXCEPT !.pc = "done", !.outcome = outcome, !.value = value]

\* the handlers register_agent registers: _handle_task_request and
\* _handle_collaboration_offer, which return a dict
OrchestratorHandlers == [x \in {"task_request", "collaboration_offer"} |-> "ok"]

\* register_agent without its test: no name is taken
register_check_skipped(agents, a) == FALSE

\* register_agent: if agent_name in self.agents: raise ValueError
register_check(agents, a) == is_registered(agents, a)

(***************************************************************************)
(* register_agent up to the calls of semantic_memory.add_triple: under     *)
(* agent_lock, the test, the new communicator with its two handlers and    *)
(* the registry entry.  The thread then is inside add_triple, holding the  *)
(* lock.                                                                   *)
(***************************************************************************)
RegisterAgent(t, a) ==
    /\ CanStart(t)
    /\ orch.agent_lock = Free
    /\ LET f == BeginFrame("register_agent", a)
           i == Len(comms) + 1
       IN  IF register_check(orch.agents, a)
           THEN /\ orch' = [orch EXCEPT !.threads[t] = Done(f, "ValueError", NoValue),
                                        !.started = @ + 1]
                /\ UNCHANGED <<comms, subscribers, stats, lastOp>>
           ELSE /\ comms' = Append(comms, [new_communicator(a) EXCEPT
                                              !.collaboration_handlers = OrchestratorHandlers])
                /\ subscribers' = subscribe(subscribers, AgentTopic(a), CommCallback(i))
                /\ stats' = [stats EXCEPT !.subscribers_count = SubscribersCount(subscribers')]
                /\ lastOp' = Op("subscribe", "ok", NoMsg, <<>>)
                /\ orch' = [orch EXCEPT !.agents = SetAgent(@, AgentInfo(a, i)),
                                        !.agent_lock = t,
                                        !.threads[t] = [f EXCEPT !.pc = "add_triple", !.info = i],
                                        !.started = @ + 1]
    /\ UNCHANGED <<safety, eng, now, message_queue, response_futures, calls, nextMid>>

(***************************************************************************)
(* register_agent, the calls of add_triple: raises tells whether the       *)
(* knowledge graph raises.  Nothing catches it; leaving the with block     *)
(* releases the lock either way.                                           *)
(***************************************************************************)
RegisterAddTriple(t, raises) ==
    /\ Frame(t).op = "register_agent"
    /\ Frame(t).pc = "add_triple"
    /\ orch' = [orch EXCEPT !.agent_lock = Free,
                            !.threads[t] =
                                IF raises THEN Done(@, "CollaboratorError", NoValue)
                                ELSE Done(@, "returned", Data("communicator", "object"))]
    /\ UNCHANGED <<safety, eng, now, subscribers, message_queue, response_futures, stats, comms, calls,
                   nextMid, lastOp>>

(***************************************************************************)
(* unregister_agent: under agent_lock, communicator.cleanup() calls        *)
(* executor.shutdown(wait=True), which refuses new tasks and waits for the *)
(* submitted ones; then the entry is deleted.                              *)
(***************************************************************************)
UnregisterAgent(t, a) ==
    /\ CanStart(t)
    /\ orch.agent_lock = Free
    /\ LET f == BeginFrame("unregister_agent", a)
       IN  IF ~is_registered(orch.agents, a)
           THEN /\ orch' = [orch EXCEPT !.threads[t] = Done(f, "returned", NoValue),
                                        !.started = @ + 1]
                /\ UNCHANGED comms
           ELSE LET i == GetAgent(orch.agents, a).communicator
                IN  /\ comms' = [comms EXCEPT ![i].shutdown = TRUE]
                    /\ orch' = [orch EXCEPT !.agent_lock = t,
                                            !.threads[t] = [f EXCEPT !.pc = "cleanup", !.info = i],
                                            !.started = @ + 1]
    /\ UNCHANGED <<safety, eng, now, subscribers, message_queue, response_futures, stats, calls, nextMid,
                   lastOp>>

UnregisterJoined(t) ==
    /\ Frame(t).op = "unregister_agent"
    /\ Frame(t).pc = "cleanup"
    /\ comms[Frame(t).info].tasks = <<>>
    /\ orch' = [orch EXCEPT !.agents = DelAgent(@, Frame(t).agent),
                            !.agent_lock = Free,
                            !.threads[t] = Done(@, "returned", NoValue)]
    /\ UNCHANGED <<safety, eng, now, subscribers, message_queue, response_futures, stats, comms, calls,
                   nextMid, lastOp>>

(***************************************************************************)
(* Experience(...) as execute_task calls it: the dataclass has eight       *)
(* fields without default, execute_task passes seven keywords.             *)
(***************************************************************************)
ExperienceFields == {"task", "success", "timestamp", "context", "lessons_learned",
                     "performance_metrics", "agent_name", "task_type"}
ExperienceArgs == {"task", "success", "context", "lessons_learned", "performance_metrics",
                   "agent_name", "task_type"}
NewExperience(args) == IF ExperienceFields \subseteq args THEN "ok" ELSE "TypeError(Experience)"

\* execute_task without its status test: any registered agent is taken
agent_available_always(info) == TRUE

\* execute_task: agent_info.status != AgentStatus.IDLE raises RuntimeError
agent_available(info) == info.status = "idle"

(***************************************************************************)
(* execute_task, the tests under agent_lock.  The lock is released before  *)
(* the status is set.                                                      *)
(***************************************************************************)
ExecuteTask(t, a) ==
    /\ CanStart(t)
    /\ orch.agent_lock = Free
    /\ LET f == BeginFrame("execute_task", a)
       IN  orch' = [orch EXCEPT
                !.started = @ + 1,
                !.threads[t] =
                    IF ~is_registered(orch.agents, a) THEN Done(f, "ValueError", NoValue)
                    ELSE IF ~agent_available(GetAgent(orch.agents, a))
                    THEN Done(f, "RuntimeError", NoValue)
                    ELSE [f EXCEPT !.pc = "checked",
                                   !.info = GetAgent(orch.agents, a).communicator]]
    /\ UNCHANGED <<safety, eng, now, subscribers, message_queue, response_futures, stats, comms, calls,
                   nextMid, lastOp>>

TASK_TIMEOUT == 30

(***************************************************************************)
(* execute_task: status = BUSY, then send_task_request through the agent's *)
(* own communicator, to the agent itself, up to its publish.               *)
(***************************************************************************)
ExecuteTaskSend(t, hasLoop) ==
    /\ Frame(t).op = "execute_task"
    /\ Frame(t).pc = "checked"
    /\ LET f == Frame(t)
           c == Len(calls) + 1
       IN  /\ SendTaskRequest(f.info, f.agent, "noop", 1, TASK_TIMEOUT, hasLoop)
           /\ orch' = [orch EXCEPT
                  !.agents = SetStatus(@, f.info, "busy"),
                  !.threads[t] =
                      IF calls'[c].pc = "done"
                      THEN [f EXCEPT !.call = c, !.pc = "failed", !.raised = calls'[c].outcome]
                      ELSE [f EXCEPT !.call = c, !.pc = "sent"]]

\* the except block of execute_task, entered with exception exc: status
\* ERROR, the counters, then Experience(...); a bare raise re-raises exc
except_block(o, t, exc) ==
    LET o1 == [o EXCEPT !.agents = SetStatus(@, o.threads[t].info, "error"),
                        !.stats.total_tasks = @ + 1,
                        !.stats.failed_tasks = @ + 1]
        e == NewExperience(ExperienceArgs)
    IN  [o1 EXCEPT !.threads[t] = Done([@ EXCEPT !.raised = exc],
                                       IF e = "ok" THEN exc ELSE e, NoValue)]

\* the try block of execute_task after send_task_request has returned
\* result: status IDLE and the counters, written without the lock; the
\* thread is then about to build the Experience
try_block(o, t, result) ==
    [o EXCEPT !.agents = SetStatus(@, o.threads[t].info, "idle"),
              !.stats.total_tasks = @ + 1,
              !.stats.successful_tasks = @ + 1,
              !.threads[t] = [@ EXCEPT !.pc = "experience", !.value = result]]

\* execute_task: send_task_request returns, the try block up to the counters
ExecuteTaskReturn(t) ==
    /\ Frame(t).op = "execute_task"
    /\ Frame(t).pc = "sent"
    /\ RequestReturn(Frame(t).call)
    /\ orch' = try_block(orch, t, calls'[Frame(t).call].value)

\* execute_task: Experience(...) in the try block, then the return of the
\* result or, when it raises, the except block
ExecuteTaskExperience(t) ==
    /\ Frame(t).op = "execute_task"
    /\ Frame(t).pc = "experience"
    /\ LET e == NewExperience(ExperienceArgs)
       IN  orch' = IF e = "ok"
                   THEN [orch EXCEPT !.threads[t] = Done(@, "returned", Frame(t).value)]
                   ELSE except_block(orch, t, e)
    /\ UNCHANGED <<safety, eng, now, subscribers, message_queue, response_futures, stats, comms, calls,
                   nextMid, lastOp>>

\* execute_task: send_task_request has raised, the except block
ExecuteTaskFail(t) ==
    /\ Frame(t).op = "execute_task"
    /\ Frame(t).pc = "failed"
    /\ orch' = except_block(orch, t, Frame(t).raised)
    /\ UNCHANGED <<safety, eng, now, subscribers, message_queue, response_futures, stats, comms, calls,
                   nextMid, lastOp>>

(***************************************************************************)
(* start_collaboration: the session, stored under collaboration_lock, then *)
(* one offer_collaboration per participant found in the registry, through  *)
(* that participant's communicator.                                        *)
(***************************************************************************)
\* collaboration_id = f"collab_{int(time.time() * 1000)}"
CollaborationId(t) == <<"collab", t>>

\* participants=[initiator] + participants
SessionParticipants(initiator, participants) == <<initiator>> \o participants

CollaborationContext(id, initiator, participants) ==
    [collaboration_id |-> id, initiator |-> initiator, participants |-> participants,
     status |-> "active"]

StartCollaboration(t, initiator, participants) ==
    /\ CanStart(t)
    /\ orch.collaboration_lock = Free
    /\ LET id == CollaborationId(now)
           f == [BeginFrame("start_collaboration", initiator) EXCEPT
                    !.pc = "notify", !.todo = participants, !.session = id]
       IN  orch' = [orch EXCEPT
                !.collaborations =
                    Put(@, id, CollaborationContext(id, initiator,
                                   SessionParticipants(initiator, participants))),
                !.stats.active_collaborations = @ + 1,
                !.stats.total_collaborations = @ + 1,
                !.threads[t] = f,
                !.started = @ + 1]
    /\ UNCHANGED <<safety, eng, now, subscribers, message_queue, response_futures, stats, comms, calls,
                   nextMid, lastOp>>

\* the loop's next participant: skipped when not registered, else offered
StartCollaborationOffer(t, hasLoop) ==
    /\ Frame(t).op = "start_collaboration"
    /\ Frame(t).pc = "notify"
    /\ Frame(t).todo # <<>>
    /\ LET f == Frame(t)
           p == Head(f.todo)
           c == Len(calls) + 1
       IN  IF ~is_registered(orch.agents, p)
           THEN /\ orch' = [orch EXCEPT !.threads[t].todo = Tail(@)]
                /\ UNCHANGED <<safety, eng, now, subscribers, message_queue, response_futures, stats,
                               comms, calls, nextMid, lastOp>>
           ELSE /\ OfferCollaboration(GetAgent(orch.agents, p).communicator, p,
                                      "code_review", 2, hasLoop)
                /\ orch' = [orch EXCEPT !.threads[t] =
                       IF calls'[c].pc = "done"
                       THEN Done([f EXCEPT !.call = c, !.raised = calls'[c].outcome],
                                 calls'[c].outcome, NoValue)
                       ELSE [f EXCEPT !.call = c, !.pc = "offering"]]

StartCollaborationOfferReturn(t) ==
    /\ Frame(t).op = "start_collaboration"
    /\ Frame(t).pc = "offering"
    /\ RequestReturn(Frame(t).call)
    /\ orch' = [orch EXCEPT !.threads[t] = [@ EXCEPT !.pc = "notify", !.todo = Tail(@),
                                                     !.call = 0]]

StartCollaborationReturn(t) ==
    /\ Frame(t).op = "start_collaboration"
    /\ Frame(t).pc = "notify"
    /\ Frame(t).todo = <<>>
    /\ orch' = [orch EXCEPT !.threads[t] = Done(@, "returned", Data("collaboration_id", "id"))]
    /\ UNCHANGED <<safety, eng, now, subscribers, message_queue, response_futures, stats, comms, calls,
                   nextMid, lastOp>>

(***************************************************************************)
(* cleanup: under agent_lock, communicator.cleanup() of every agent in     *)
(* turn, each an executor.shutdown(wait=True), then the registry is        *)
(* cleared; then the sessions are cleared under collaboration_lock.        *)
(***************************************************************************)
Cleanup(t) ==
    /\ CanStart(t)
    /\ orch.agent_lock = Free
    /\ orch' = [orch EXCEPT
           !.agent_lock = t,
           !.threads[t] = [BeginFrame("cleanup", "none") EXCEPT
                              !.pc = "cleanup_agents",
                              !.todo = [k \in 1..Len(orch.agents) |-> orch.agents[k].name]],
           !.started = @ + 1]
    /\ UNCHANGED <<safety, eng, now, subscribers, message_queue, response_futures, stats, comms, calls,
                   nextMid, lastOp>>

CleanupShutdown(t) ==
    /\ Frame(t).op = "cleanup"
    /\ Frame(t).pc = "cleanup_agents"
    /\ Frame(t).todo # <<>>
    /\ LET i == GetAgent(orch.agents, Head(Frame(t).todo)).communicator
       IN  /\ comms' = [comms EXCEPT ![i].shutdown = TRUE]
           /\ orch' = [orch EXCEPT !.threads[t] = [@ EXCEPT !.pc = "cleanup_wait", !.info = i]]
    /\ UNCHANGED <<safety, eng, now, subscribers, message_queue, response_futures, stats, calls, nextMid,
                   lastOp>>

CleanupJoined(t) ==
    /\ Frame(t).op = "cleanup"
    /\ Frame(t).pc = "cleanup_wait"
    /\ comms[Frame(t).info].tasks = <<>>
    /\ orch' = [orch EXCEPT !.threads[t] = [@ EXCEPT !.pc = "cleanup_agents",
                                                     !.todo = Tail(@)]]
    /\ UNCHANGED <<safety, eng, now, subscribers, message_queue, response_futures, stats, comms, calls,
                   nextMid, lastOp>>

CleanupClear(t) ==
    /\ Frame(t).op = "cleanup"
    /\ Frame(t).pc = "cleanup_agents"
    /\ Frame(t).todo = <<>>
    /\ orch.collaboration_lock = Free
    /\ orch' = [orch EXCEPT !.agents = <<>>,
                            !.agent_lock = Free,
                            !.collaborations = EmptyMap,
                            !.threads[t] = Done(@, "returned", NoValue)]
    /\ UNCHANGED <<safety, eng, now, subscribers, message_queue, response_futures, stats, comms, calls,
                   nextMid, lastOp>>

(***************************************************************************)
(* WorkflowEngine.  execute_workflow is run by a caller thread t in steps  *)
(* between which other threads run: the registration under the lock, the   *)
(* start, each top-level step with whatever it dispatches, the completion, *)
(* and the finally block.  cancel_workflow and get_workflow_status are one *)
(* step each, under the lock.                                              *)
(***************************************************************************)
Run(t) == eng.threads[t]
CanRun(t) == Run(t).pc \in {"idle", "done"}
BusVars == <<now, subscribers, message_queue, response_futures, stats, comms, calls, nextMid,
             lastOp, orch, safety>>

\* load_workflow_definition
LoadWorkflowDefinition(name, definition) ==
    /\ eng' = [eng EXCEPT !.workflow_definitions = Put(@, name, definition)]
    /\ UNCHANGED BusVars

\* workflow_id = f"{workflow_name}_{int(time.time() * 1000)}"
GeneratedId(name, t) == name \o "_" \o ToString(t)

NoId == ""

\* execute_workflow up to the registration in active_workflows; wid is the
\* workflow_id argument, NoId for None
ExecuteWorkflow(t, name, input, wid) ==
    /\ CanRun(t)
    /\ IF name \notin DOMAIN eng.workflow_definitions
       THEN eng' = [eng EXCEPT !.threads[t] = [IdleRun EXCEPT !.pc = "done",
                                                              !.outcome = "ValueError"]]
       ELSE LET workflow_id == IF wid = NoId THEN GeneratedId(name, now) ELSE wid
                e == Len(eng.executions) + 1
            IN  eng' = [eng EXCEPT
                    !.executions = Append(@, WorkflowExecution(workflow_id,
                                                 eng.workflow_definitions[name])),
                    !.active_workflows = Put(@, workflow_id, e),
                    !.threads[t] = [IdleRun EXCEPT !.pc = "registered", !.execution = e,
                                                   !.workflow_id = workflow_id,
                                                   !.input = input]]
    /\ UNCHANGED BusVars

Failure(workflow_id, error) ==
    [success |-> FALSE, workflow_id |-> workflow_id, result |-> NoneV, error |-> error]
Success(workflow_id, result) ==
    [success |-> TRUE, workflow_id |-> workflow_id, result |-> result, error |-> ""]

\* the except block of execute_workflow, entered with an exception whose
\* str() is error
failed(execution, error) ==
    [execution EXCEPT !.status = "failed", !.end_time = now, !.errors = Append(@, error)]

(***************************************************************************)
(* execute_workflow: start_time, status = RUNNING, and the beginning of    *)
(* _execute_workflow_sync: the context, a copy of the input, and the       *)
(* parsing of all step configurations, whose KeyError ends the workflow.   *)
(***************************************************************************)
WorkflowStart(t) ==
    /\ Run(t).pc = "registered"
    /\ LET e == Run(t).execution
           configs == Get(eng.executions[e].workflow_config, "steps", ListV(<<>>)).items
           running == [eng.executions[e] EXCEPT !.start_time = now, !.status = "running",
                                                !.context = Run(t).input]
       IN  IF \E k \in 1..Len(configs) : parse_raises(configs[k])
           THEN eng' = [eng EXCEPT
                    !.executions[e] = failed(running, "'name'"),
                    !.threads[t] = [@ EXCEPT !.pc = "finally",
                                             !.result = Failure(Run(t).workflow_id, "'name'")]]
           ELSE eng' = [eng EXCEPT
                    !.executions[e] = running,
                    !.threads[t] = [@ EXCEPT
                        !.pc = "steps",
                        !.context = Run(t).input,
                        !.steps = [k \in 1..Len(configs) |-> parse_step_config(configs[k])]]]
    /\ UNCHANGED BusVars

\* a result stored under the step's bare name
result_key_plain(step) == NameOf(step)

\* f"{step.name}_result"
result_key(step) == NameOf(step) \o "_result"

StepFailed(step, error) == "Step '" \o NameOf(step) \o "' failed: " \o error

(***************************************************************************)
(* One turn of the for loop of _execute_workflow_sync: current_step, the   *)
(* step and all it dispatches, then the two stores of its result or, when  *)
(* it raised, the error, the re-raise and the except block of              *)
(* execute_workflow.  A step that never returns takes no such turn.        *)
(***************************************************************************)
WorkflowStep(t) ==
    /\ Run(t).pc = "steps"
    /\ Run(t).steps # <<>>
    /\ LET e == Run(t).execution
           step == Head(Run(t).steps)
           r == execute_step(eng.orchestrator, step, Run(t).context)
           begun == [eng.executions[e] EXCEPT !.current_step = step.name,
                                              !.started = Append(@, NameOf(step)),
                                              !.dispatched = @ \o r.dispatched]
       IN  /\ r.state # "hang"
           /\ IF r.state = "ok"
              THEN eng' = [eng EXCEPT
                       !.executions[e] = [begun EXCEPT
                                             !.results = Set(@, NameOf(step), r.value)],
                       !.threads[t] = [@ EXCEPT
                           !.steps = Tail(@),
                           !.context = Set(@, result_key(step), r.value)]]
              ELSE eng' = [eng EXCEPT
                       !.executions[e] =
                           failed([begun EXCEPT !.errors = Append(@, StepFailed(step, r.error))],
                                  r.error),
                       !.threads[t] = [@ EXCEPT !.pc = "finally",
                                                !.result = Failure(Run(t).workflow_id, r.error)]]
    /\ UNCHANGED BusVars

\* the end of _execute_workflow_sync and of the try block of execute_workflow
WorkflowFinish(t) ==
    /\ Run(t).pc = "steps"
    /\ Run(t).steps = <<>>
    /\ LET e == Run(t).execution
           result == Get(Run(t).context, "final_result", Run(t).context)
       IN  eng' = [eng EXCEPT
               !.executions[e] = [@ EXCEPT !.status = "completed", !.end_time = now,
                                           !.results = Set(@, "final_result", result)],
               !.threads[t] = [@ EXCEPT !.pc = "finally",
                                        !.result = Success(Run(t).workflow_id, result)]]
    /\ UNCHANGED BusVars

\* a finally block that leaves the active set as it is
finally_block_skipped(active, workflow_id) == active

\* the finally block of execute_workflow: if workflow_id in
\* self.active_workflows: del self.active_workflows[workflow_id]
finally_block(active, workflow_id) == Pop(active, workflow_id)

\* the finally block of execute_workflow, then the return
WorkflowCleanup(t) ==
    /\ Run(t).pc = "finally"
    /\ eng' = [eng EXCEPT !.active_workflows = finally_block(@, Run(t).workflow_id),
                          !.threads[t] = [@ EXCEPT !.pc = "done", !.outcome = "returned"]]
    /\ UNCHANGED BusVars

\* cancel_workflow without its status test: any active execution is cancelled
can_cancel_any(active, executions, workflow_id) == workflow_id \in DOMAIN active

\* cancel_workflow: execution and execution.status == WorkflowStatus.RUNNING
can_cancel(active, executions, workflow_id) ==
    /\ workflow_id \in DOMAIN active
    /\ executions[active[workflow_id]].status = "running"

CancelWorkflow(workflow_id) ==
    /\ IF can_cancel(eng.active_workflows, eng.executions, workflow_id)
       THEN LET e == eng.active_workflows[workflow_id]
            IN  eng' = [eng EXCEPT
                    !.executions[e] = [@ EXCEPT !.status = "cancelled", !.end_time = now,
                                                !.cancelled_at = Len(eng.executions[e].started)],
                    !.last = [op |-> "cancel_workflow", workflow_id |-> workflow_id,
                              found |-> TRUE, returned |-> TRUE, execution |-> e,
                              status |-> "cancelled"]]
       ELSE eng' = [eng EXCEPT
                !.last = [op |-> "cancel_workflow", workflow_id |-> workflow_id,
                          found |-> workflow_id \in DOMAIN eng.active_workflows,
                          returned |-> FALSE,
                          execution |-> IF workflow_id \in DOMAIN eng.active_workflows
                                        THEN eng.active_workflows[workflow_id] ELSE 0,
                          status |-> IF workflow_id \in DOMAIN eng.active_workflows
                                     THEN eng.executions[eng.active_workflows[workflow_id]].status
                                     ELSE "none"]]
    /\ UNCHANGED BusVars

\* get_workflow_status: the index of the execution whose to_dict() it
\* returns, 0 for None
get_workflow_status(active, workflow_id) ==
    IF workflow_id \in DOMAIN active THEN active[workflow_id] ELSE 0

GetWorkflowStatus(workflow_id) ==
    /\ LET e == get_workflow_status(eng.active_workflows, workflow_id)
       IN  eng' = [eng EXCEPT
               !.last = [op |-> "get_workflow_status", workflow_id |-> workflow_id,
                         found |-> e # 0, returned |-> e # 0, execution |-> e,
                         status |-> IF e # 0 THEN to_dict(eng.executions[e]).status
                                    ELSE "none"]]
    /\ UNCHANGED BusVars

(***************************************************************************)
(* SpecPrio: the priority queue alone.  Messages differ in priority only   *)
(* and none expires; threads publish and the worker dequeues.              *)
(***************************************************************************)
HeapPriorities == {1, 2, 3}
PrioMessage(p) ==
    Message(nextMid, "notification", "ext", NoReceiver, PlainPayload, <<"ext", "id", 0>>,
            p, now, DEFAULT_TTL)

PublishPrio ==
    /\ nextMid <= MaxHeapMsgs
    /\ Len(message_queue) < MaxHeap
    /\ \E p \in HeapPriorities : Publish(PrioMessage(p))

NextPrio == PublishPrio \/ ProcessMessages

SpecPrio == Init /\ [][NextPrio]_vars

(***************************************************************************)
(* Inputs of the specifications below: outside callbacks cbOk and cbBad    *)
(* (cbBad raises), messages built by outside threads, and what bounds      *)
(* them.                                                                   *)
(***************************************************************************)
ExtCallbacks == {ExtCallback("cbOk"), ExtCallback("cbBad")}
BusTopics == {AgentTopic("a1"), BroadcastTopic("notification"), BroadcastTopic("broadcast")}
BusCid == <<"ext", "id", 1>>
BusPriorities == {1, 2}
BusTtls == {0, 1}
Timeouts == {1}

\* a Message is built at or before the moment it is published
CreationTimes == {t \in {now - 1, now} : t >= 0}

ExtMessage(type, rcv, data, cid, p, ts, ttl) ==
    Message(nextMid, type, "ext", rcv, Payload(data, FALSE), cid, p, ts, ttl)

SubscriptionCount == SubscribersCount(subscribers)
Subscriptions ==
    UNION {{subscribers[tp][k] : k \in 1..Len(subscribers[tp])} : tp \in DOMAIN subscribers}

CanPublish(maxMsgs) == nextMid <= maxMsgs

(***************************************************************************)
(* SpecExpiry: expiry.  Messages to agent a1 with a ttl of 0 or 1, built   *)
(* now or one tick ago, are published while time passes.                   *)
(***************************************************************************)
ExpirySubscribe ==
    /\ SubscriptionCount < MaxSubs
    /\ Subscribe(AgentTopic("a1"), ExtCallback("cbOk"))

ExpiryPublish ==
    /\ CanPublish(MaxMsgs)
    /\ \E p \in BusPriorities, ts \in CreationTimes, ttl \in BusTtls :
           Publish(ExtMessage("notification", "a1", EmptyDict, BusCid, p, ts, ttl))

ExpiryTick == TickTo(MaxTime)

NextExpiry == ExpiryTick \/ ExpirySubscribe \/ ExpiryPublish \/ ProcessMessages

SpecExpiry == Init /\ [][NextExpiry]_vars

(***************************************************************************)
(* SpecRoute: routing.  Outside callbacks subscribe to and unsubscribe     *)
(* from three topics; messages of every routing class, with and without a  *)
(* receiver, are published and dispatched.  No message expires.            *)
(***************************************************************************)
RouteClasses == {<<"notification", "a1">>, <<"notification", NoReceiver>>,
                 <<"broadcast", "a1">>, <<"response", "a1">>}

RouteSubscribe ==
    /\ SubscriptionCount < MaxSubs
    /\ \E tp \in BusTopics, cb \in ExtCallbacks : Subscribe(tp, cb)

RouteUnsubscribe == \E sub \in Subscriptions : Unsubscribe(sub.sid)

RoutePublish ==
    /\ CanPublish(MaxMsgs)
    /\ \E tr \in RouteClasses, p \in BusPriorities :
           Publish(ExtMessage(tr[1], tr[2], EmptyDict, BusCid, p, now, DEFAULT_TTL))

NextRoute == RouteSubscribe \/ RouteUnsubscribe \/ RoutePublish \/ ProcessMessages

SpecRoute == Init /\ [][NextRoute]_vars

(***************************************************************************)
(* SpecReq: send_request.  Threads call send_request with request and      *)
(* non-request messages, other threads publish responses, time passes.     *)
(***************************************************************************)
ReqCids == {<<"ext", "id", 1>>, <<"ext", "id", 2>>}

ReqSendRequest ==
    /\ CanPublish(MaxCallMsgs)
    /\ Len(calls) < MaxCalls
    /\ \E type \in {"request", "notification"}, cid \in ReqCids, p \in BusPriorities,
          tmo \in Timeouts, hasLoop \in BOOLEAN :
           SendRequest(ExtMessage(type, "a1", EmptyDict, cid, p, now, DEFAULT_TTL), tmo, hasLoop)

ReqSendRequestWait == \E c \in 1..Len(calls) : SendRequestWait(c)

ReqPublishResponse ==
    /\ CanPublish(MaxCallMsgs)
    /\ \E cid \in ReqCids, p \in BusPriorities :
           Publish(ExtMessage("response", "ext", Data("value", "done"), cid, p, now, DEFAULT_TTL))

ReqTick == TickTo(MaxCallTime)

NextReq == ReqTick \/ ReqSendRequest \/ ReqSendRequestWait \/ ReqPublishResponse \/ ProcessMessages

SpecReq == Init /\ [][NextReq]_vars

(***************************************************************************)
(* SpecComm: the communicators.  Agent a1 sends task requests and          *)
(* collaboration offers to agent a2, whose handlers answer or raise;       *)
(* other threads publish task_response and collaboration_response          *)
(* messages addressed to a1; time passes.                                  *)
(***************************************************************************)
Requester == "a1"
Responder == "a2"
HandlerKinds == {"ok", "raises"}
CommIds(a) == {i \in 1..Len(comms) : comms[i].agent_name = a}

CommSendTaskRequest ==
    /\ CanPublish(MaxCallMsgs)
    /\ Len(calls) < MaxCalls
    /\ \E i \in CommIds(Requester), p \in BusPriorities, tmo \in Timeouts, hasLoop \in BOOLEAN :
           SendTaskRequest(i, Responder, "noop", p, tmo, hasLoop)
    /\ UNCHANGED orch

CommOfferCollaboration ==
    /\ CanPublish(MaxCallMsgs)
    /\ Len(calls) < MaxCalls
    /\ \E i \in CommIds(Requester), hasLoop \in BOOLEAN :
           OfferCollaboration(i, Responder, "review", 2, hasLoop)
    /\ UNCHANGED orch

CommRequestReturn ==
    /\ \E c \in 1..Len(calls) : RequestReturn(c)
    /\ UNCHANGED orch

CommProcessRequest ==
    /\ CanPublish(MaxCallMsgs)
    /\ \E i \in 1..Len(comms), k \in 1..MaxCallMsgs : ProcessRequest(i, k)

\* a response published by a thread outside the communicators
StrayResponses ==
    {<<"task_response", CorrelationId(Requester, "task", 0)>>,
     <<"collaboration_response", CorrelationId(Requester, "collab", 0)>>}

CommPublishResponse ==
    /\ CanPublish(MaxCallMsgs)
    /\ \E tc \in StrayResponses, p \in BusPriorities :
           Publish(ExtMessage(tc[1], Requester, Data("response", "late"), tc[2], p, now,
                              DEFAULT_TTL))

CommTick == TickTo(MaxCallTime)

NextComm ==
    \/ CommTick
    \/ CommSendTaskRequest
    \/ CommOfferCollaboration
    \/ CommRequestReturn
    \/ CommProcessRequest
    \/ CommPublishResponse
    \/ ProcessMessages

\* the communicators of a1 and a2 are constructed, in this order, and a2 has
\* registered its two handlers
HandlerMaps == [{"task_request", "collaboration_offer"} -> HandlerKinds]

InitComm ==
    /\ now = 0
    /\ message_queue = <<>>
    /\ response_futures = EmptyMap
    /\ subscribers = subscribe(subscribe([tp \in Topics |-> <<>>],
                                         AgentTopic(Requester), CommCallback(1)),
                               AgentTopic(Responder), CommCallback(2))
    /\ stats = [messages_sent |-> 0, messages_received |-> 0, messages_expired |-> 0,
                subscribers_count |-> 2]
    /\ \E hs \in HandlerMaps :
           comms = <<new_communicator(Requester),
                     [new_communicator(Responder) EXCEPT !.collaboration_handlers = hs]>>
    /\ calls = <<>>
    /\ nextMid = 1
    /\ lastOp = Op("init", "ok", NoMsg, <<>>)
    /\ orch = NewOrchestrator
    /\ eng = new_engine(FALSE)
    /\ safety = NewSafety

SpecComm == InitComm /\ [][NextComm]_vars

(***************************************************************************)
(* SpecOrch: the orchestrator.  Two caller threads call register_agent,    *)
(* unregister_agent, execute_task, start_collaboration and cleanup on one  *)
(* orchestrator, whose fields are as lines 44-64 of __init__ set them; the *)
(* bus dispatches and the executors of the communicators run the           *)
(* orchestrator's handlers.  Time stands still: every call falls into the  *)
(* same millisecond.                                                       *)
(***************************************************************************)
MaxOrchOps == 3
MaxOrchMsgs == 2
OrchAgents == {"a1", "a2"}
ParticipantLists == {<<"a2">>, <<"a1", "a2">>, <<"a2", "a2">>}
CanCall == orch.started < MaxOrchOps

OrchRegisterAgent == CanCall /\ \E t \in OThreads, a \in OrchAgents : RegisterAgent(t, a)

OrchRegisterAddTriple == \E t \in OThreads, raises \in BOOLEAN : RegisterAddTriple(t, raises)

OrchUnregisterAgent == CanCall /\ \E t \in OThreads, a \in OrchAgents : UnregisterAgent(t, a)

OrchUnregisterJoined == \E t \in OThreads : UnregisterJoined(t)

OrchExecuteTask == CanCall /\ \E t \in OThreads, a \in OrchAgents : ExecuteTask(t, a)

OrchExecuteTaskSend ==
    \E t \in OThreads, hasLoop \in BOOLEAN :
        /\ hasLoop => CanPublish(MaxOrchMsgs)
        /\ ExecuteTaskSend(t, hasLoop)

OrchExecuteTaskReturn == \E t \in OThreads : ExecuteTaskReturn(t)

OrchExecuteTaskExperience == \E t \in OThreads : ExecuteTaskExperience(t)

OrchExecuteTaskFail == \E t \in OThreads : ExecuteTaskFail(t)

OrchStartCollaboration ==
    /\ CanCall
    /\ \E t \in OThreads, a \in OrchAgents, ps \in ParticipantLists : StartCollaboration(t, a, ps)

OrchStartCollaborationOffer ==
    \E t \in OThreads, hasLoop \in BOOLEAN :
        /\ hasLoop => CanPublish(MaxOrchMsgs)
        /\ StartCollaborationOffer(t, hasLoop)

OrchStartCollaborationOfferReturn == \E t \in OThreads : StartCollaborationOfferReturn(t)

OrchStartCollaborationReturn == \E t \in OThreads : StartCollaborationReturn(t)

OrchCleanup == CanCall /\ \E t \in OThreads : Cleanup(t)

OrchCleanupShutdown == \E t \in OThreads : CleanupShutdown(t)

OrchCleanupJoined == \E t \in OThreads : CleanupJoined(t)

OrchCleanupClear == \E t \in OThreads : CleanupClear(t)

OrchProcessRequest ==
    /\ CanPublish(MaxOrchMsgs)
    /\ \E i \in 1..Len(comms), k \in 1..MaxOrchMsgs : ProcessRequest(i, k)

OrchProcessMessages == ProcessMessages

NextOrch ==
    \/ OrchRegisterAgent
    \/ OrchRegisterAddTriple
    \/ OrchUnregisterAgent
    \/ OrchUnregisterJoined
    \/ OrchExecuteTask
    \/ OrchExecuteTaskSend
    \/ OrchExecuteTaskReturn
    \/ OrchExecuteTaskExperience
    \/ OrchExecuteTaskFail
    \/ OrchStartCollaboration
    \/ OrchStartCollaborationOffer
    \/ OrchStartCollaborationOfferReturn
    \/ OrchStartCollaborationReturn
    \/ OrchCleanup
    \/ OrchCleanupShutdown
    \/ OrchCleanupJoined
    \/ OrchCleanupClear
    \/ OrchProcessRequest
    \/ OrchProcessMessages

SpecOrch == Init /\ [][NextOrch]_vars

(***************************************************************************)
(* SpecTasks: the registry and the tasks of the orchestrator, without      *)
(* collaborations.                                                         *)
(***************************************************************************)
NextTasks ==
    \/ OrchRegisterAgent
    \/ OrchRegisterAddTriple
    \/ OrchUnregisterAgent
    \/ OrchUnregisterJoined
    \/ OrchExecuteTask
    \/ OrchExecuteTaskSend
    \/ OrchExecuteTaskReturn
    \/ OrchExecuteTaskExperience
    \/ OrchExecuteTaskFail
    \/ OrchCleanup
    \/ OrchCleanupShutdown
    \/ OrchCleanupJoined
    \/ OrchCleanupClear
    \/ OrchProcessRequest
    \/ OrchProcessMessages

SpecTasks == Init /\ [][NextTasks]_vars

(***************************************************************************)
(* Step configurations used as inputs.                                     *)
(***************************************************************************)
TaskConfig(name, agent) ==
    DictV(("name" :> Word(name)) @@ ("step_type" :> Word("task")) @@ ("agent" :> Word(agent))
          @@ ("action" :> Word(name)))

WithKey(config, key, value) == Set(config, key, value)

Definition(configs) == DictV("steps" :> ListV(configs))

(***************************************************************************)
(* SpecEngine: an engine with a dispatcher under concurrent calls.         *)
(* Definitions of task steps are loaded under the name "w"; two caller     *)
(* threads execute it under generated workflow ids; other threads cancel   *)
(* by id, one id being unknown to the engine.  Time stands still.          *)
(***************************************************************************)
MaxRuns == 2
WorkflowNames == {"w"}
EngineDefinitions ==
    {Definition(<<TaskConfig("s1", "good"),
                  WithKey(TaskConfig("s2", "good"), "dependencies", ListV(<<Word("s3")>>))>>),
     Definition(<<TaskConfig("s1", "good"), TaskConfig("s2", "bad"), TaskConfig("s3", "good")>>)}
GivenIds == {"run"}
QueriedIds == {"run"} \cup {GeneratedId(name, now) : name \in WorkflowNames}

InitWith(orchestrator) ==
    /\ now = 0
    /\ subscribers = [tp \in Topics |-> <<>>]
    /\ message_queue = <<>>
    /\ response_futures = EmptyMap
    /\ stats = [messages_sent |-> 0, messages_received |-> 0, messages_expired |-> 0,
                subscribers_count |-> 0]
    /\ comms = <<>>
    /\ calls = <<>>
    /\ nextMid = 1
    /\ lastOp = Op("init", "ok", NoMsg, <<>>)
    /\ orch = NewOrchestrator
    /\ eng = new_engine(orchestrator)
    /\ safety = NewSafety

\* the engine was given a dispatcher
InitEngine == InitWith(TRUE)

EngineLoad ==
    /\ eng.executions = <<>>
    /\ \E name \in WorkflowNames, d \in EngineDefinitions : LoadWorkflowDefinition(name, d)

EngineExecuteWorkflow ==
    /\ Len(eng.executions) < MaxRuns
    /\ \E t \in WThreads, name \in WorkflowNames \cup {"nope"} :
           ExecuteWorkflow(t, name, EmptyDictV, NoId)

\* execute_workflow with a workflow id chosen by the caller
StatusExecuteWorkflow ==
    /\ Len(eng.executions) < MaxRuns
    /\ \E t \in WThreads, name \in WorkflowNames, wid \in GivenIds :
           ExecuteWorkflow(t, name, EmptyDictV, wid)

EngineWorkflowStart == \E t \in WThreads : WorkflowStart(t)

EngineWorkflowStep == \E t \in WThreads : WorkflowStep(t)

EngineWorkflowFinish == \E t \in WThreads : WorkflowFinish(t)

EngineWorkflowCleanup == \E t \in WThreads : WorkflowCleanup(t)

EngineCancelWorkflow == \E wid \in QueriedIds : CancelWorkflow(wid)

EngineGetWorkflowStatus == \E wid \in QueriedIds : GetWorkflowStatus(wid)

NextEngine ==
    \/ EngineLoad
    \/ EngineExecuteWorkflow
    \/ EngineWorkflowStart
    \/ EngineWorkflowStep
    \/ EngineWorkflowFinish
    \/ EngineWorkflowCleanup
    \/ EngineCancelWorkflow

SpecEngine == InitEngine /\ [][NextEngine]_vars

(***************************************************************************)
(* SpecStatus: SpecEngine with callers that give a workflow id and threads *)
(* that call get_workflow_status.                                          *)
(***************************************************************************)
NextStatus == NextEngine \/ StatusExecuteWorkflow \/ EngineGetWorkflowStatus

SpecStatus == InitEngine /\ [][NextStatus]_vars

(***************************************************************************)
(* Claims about expiry (SpecExpiry).                                       *)
(***************************************************************************)
QueuedMsgs == {message_queue[i].msg : i \in 1..Len(message_queue)}

\* the worker's get returned a message
Dequeued == lastOp.op = "get" /\ lastOp.outcome \in {"dispatched", "expired"}

\* C1: a message that is expired when publish is called, or when the worker
\* dequeues it, is dropped: no callback is invoked with it, it is not (or no
\* longer) queued, and the expired counter goes up by exactly one; a message
\* with which a callback is invoked was expired neither when it was published
\* nor when it was dequeued.
C1_ExpiredDropped ==
    [][lastOp' # lastOp =>
          /\ lastOp'.invoked # <<>>
             => /\ ~(lastOp'.put_at - lastOp'.msg.timestamp > lastOp'.msg.ttl)
                /\ ~(lastOp'.at - lastOp'.msg.timestamp > lastOp'.msg.ttl)
          /\ ( /\ lastOp'.op = "publish" \/ Dequeued'
               /\ lastOp'.at - lastOp'.msg.timestamp > lastOp'.msg.ttl )
             => /\ lastOp'.outcome = "expired"
                /\ lastOp'.invoked = <<>>
                /\ lastOp'.msg \notin QueuedMsgs'
                /\ stats'.messages_expired = stats.messages_expired + 1
                /\ stats'.messages_received = stats.messages_received
                /\ stats'.messages_sent = stats.messages_sent]_vars

C1_Witness ==
    /\ lastOp.op = "get"
    /\ lastOp.outcome = "expired"
    /\ lastOp.put_at - lastOp.msg.timestamp <= lastOp.msg.ttl
    /\ subscribers[AgentTopic("a1")] # <<>>
    /\ stats.messages_expired = 2

\* C2 as stated: a message with ttl = 0 published at any time t >= createdAt,
\* t = createdAt included, is counted as expired by publish and no callback
\* is ever invoked for it.
C2_TtlZeroNeverDelivered ==
    /\ (lastOp.op = "publish" /\ lastOp.msg.ttl = 0) => lastOp.outcome = "expired"
    /\ (lastOp.op = "get" /\ lastOp.msg.ttl = 0) => lastOp.invoked = <<>>

\* C2 as amended: a message with ttl = 0 published at a time t > createdAt is
\* dropped by publish, which adds exactly one to the expired counter; it is
\* never queued, so no callback is ever invoked for it: every queued or
\* delivered message with ttl = 0 was published at its creation instant.
\* Published at t = createdAt it is not expired: publish does not count it.
C2_TtlZeroPublishedLater ==
    [][lastOp' # lastOp =>
          /\ ( /\ lastOp'.op = "publish"
               /\ lastOp'.msg.ttl = 0
               /\ lastOp'.at > lastOp'.msg.timestamp )
             => /\ lastOp'.outcome = "expired"
                /\ message_queue' = message_queue
                /\ stats'.messages_expired = stats.messages_expired + 1
          /\ ( /\ lastOp'.op = "publish"
               /\ lastOp'.msg.ttl = 0
               /\ lastOp'.at = lastOp'.msg.timestamp )
             => /\ lastOp'.outcome # "expired"
                /\ stats'.messages_expired = stats.messages_expired
          /\ \A i \in 1..Len(message_queue') :
                 message_queue'[i].msg.ttl = 0
                     => message_queue'[i].put_at = message_queue'[i].msg.timestamp
          /\ (lastOp'.op = "get" /\ lastOp'.msg.ttl = 0 /\ lastOp'.invoked # <<>>)
             => lastOp'.put_at = lastOp'.msg.timestamp]_vars

C2_Witness ==
    /\ lastOp.op = "publish"
    /\ lastOp.msg.ttl = 0
    /\ lastOp.at > lastOp.msg.timestamp
    /\ lastOp.outcome = "expired"
    /\ subscribers[AgentTopic("a1")] # <<>>

(***************************************************************************)
(* Claims about the priority queue.                                        *)
(***************************************************************************)
\* C3: whenever the worker dequeues an entry, no non-expired entry of strictly
\* higher priority is in the queue at that moment.
C3_HigherPriorityFirst ==
    Dequeued =>
        \A m \in QueuedMsgs : ~is_expired(m, now) => m.priority <= lastOp.msg.priority

\* C4: publishing a message whose priority equals that of a queued message
\* succeeds (no comparison of message objects is made), and messages of equal
\* priority are dequeued in the order in which they were published.
C4_EqualPriorityFifo ==
    /\ lastOp.op = "publish" => lastOp.outcome # "TypeError"
    /\ Dequeued =>
           \A m \in QueuedMsgs : m.priority = lastOp.msg.priority => m.mid > lastOp.msg.mid

(***************************************************************************)
(* Claims about send_request and the pending tables (SpecReq, SpecComm).   *)
(***************************************************************************)
CallIds == 1..Len(calls)

\* the call ended the way the contract allows: with the result of its future,
\* set by a response, or with a timeout error once the timeout has elapsed
EndedByResponseOrTimeout(c) ==
    \/ /\ calls[c].outcome = "returned"
       /\ calls[c].futDone
       /\ calls[c].value = calls[c].futResult
    \/ /\ calls[c].outcome = "TimeoutError"
       /\ calls[c].ended - calls[c].start >= calls[c].timeout

\* C5: send_request on a request-typed message that it has published returns
\* only with the payload of a dispatched response, or raises only a timeout
\* error after the timeout has elapsed.
C5_SendRequestBlocks ==
    \A c \in CallIds :
        ( /\ calls[c].kind = "send_request"
          /\ calls[c].published \in {"queued", "expired"}
          /\ calls[c].pc = "done" )
            => EndedByResponseOrTimeout(c)

\* a call is in flight for correlation id cid (on communicator i, 0 for the bus)
InFlight(i, cid) ==
    \E c \in CallIds : calls[c].comm = i /\ calls[c].cid = cid /\ calls[c].pc # "done"

\* C6: once a call of send_request, send_task_request or offer_collaboration
\* has returned or raised, no entry for its correlation id is left in the
\* bus's response_futures or in the communicator's response_handlers.
C6_NoEntryAfterReturn ==
    /\ \A cid \in DOMAIN response_futures : InFlight(0, cid)
    /\ \A i \in 1..Len(comms) : \A cid \in DOMAIN comms[i].response_handlers : InFlight(i, cid)

\* C7: a response dispatched after the handler of its correlation id has
\* fired or timed out is a no-op: no future is resolved and no handler is
\* invoked a second time.
C7_LateResponseIsNoOp == \A c \in CallIds : calls[c].fired <= 1

\* C10: send_task_request, once it has published its request, returns only
\* with the response its handler received, or raises a timeout error after
\* the timeout has elapsed.
C10_TaskRequestBlocks ==
    \A c \in CallIds :
        ( /\ calls[c].kind = "send_task_request"
          /\ calls[c].published \in {"queued", "expired"}
          /\ calls[c].pc = "done" )
            => EndedByResponseOrTimeout(c)

(***************************************************************************)
(* Claims about routing (SpecRoute).                                       *)
(***************************************************************************)
\* the subscriptions the contract names for message m
Recipients(m) ==
    IF m.message_type = "response" THEN <<>>
    ELSE IF m.message_type = "broadcast" THEN subscribers[BroadcastTopic("broadcast")]
    ELSE IF m.receiver \in Agents THEN subscribers[AgentTopic(m.receiver)]
    ELSE subscribers[BroadcastTopic(m.message_type)]

InvokedSubscriptions(invoked) ==
    [k \in 1..Len(invoked) |-> [sid |-> invoked[k].sid, cb |-> invoked[k].cb]]

\* C8: a dispatched message invokes exactly the subscriptions of its routing
\* class, each once: broadcast -> broadcast.broadcast, response -> none,
\* other with receiver R -> agent.R, other without receiver -> broadcast.<type>.
C8_RoutedByType ==
    (lastOp.op = "get" /\ lastOp.outcome = "dispatched")
        => InvokedSubscriptions(lastOp.invoked) = Recipients(lastOp.msg)

C8_Witness ==
    /\ lastOp.op = "get"
    /\ lastOp.outcome = "dispatched"
    /\ lastOp.msg.message_type = "notification"
    /\ lastOp.msg.receiver = "a1"
    /\ Len(lastOp.invoked) = 1
    /\ subscribers[BroadcastTopic("notification")] # <<>>

\* C9: when a callback raises during a delivery, the callbacks subscribed
\* after it on the topic are still invoked with the message, and the worker
\* goes on: it takes the next queued message.
C9_RaisingCallbackContained ==
    (lastOp.op = "get" /\ \E k \in 1..Len(lastOp.invoked) : lastOp.invoked[k].raised)
        => /\ lastOp.outcome = "dispatched"
           /\ Len(lastOp.invoked) = Len(Recipients(lastOp.msg))
           /\ \A k \in 1..Len(lastOp.invoked) : lastOp.invoked[k].mid = lastOp.msg.mid
           /\ message_queue # <<>> => ENABLED ProcessMessages

C9_Witness ==
    /\ lastOp.op = "get"
    /\ Len(lastOp.invoked) = 2
    /\ lastOp.invoked[1].raised
    /\ ~lastOp.invoked[2].raised
    /\ message_queue # <<>>

(***************************************************************************)
(* Claims about the communicator's requests (SpecComm).                    *)
(***************************************************************************)
\* a request of a communicator that is outstanding: published, not returned
Outstanding(c) ==
    /\ calls[c].kind \in {"send_task_request", "offer_collaboration"}
    /\ calls[c].pc = "waiting"

\* C11: two requests of one communicator that are outstanding at the same
\* time have distinct correlation ids, and each outstanding request is the
\* owner of the response handler registered under its correlation id (no
\* later registration has replaced it).
C11_DistinctCorrelationIds ==
    \A c \in CallIds :
        Outstanding(c)
            => /\ calls[c].cid \in DOMAIN comms[calls[c].comm].response_handlers
               /\ comms[calls[c].comm].response_handlers[calls[c].cid] = c
               /\ \A d \in CallIds \ {c} :
                      (Outstanding(d) /\ calls[d].comm = calls[c].comm)
                          => calls[d].cid # calls[c].cid

\* the value {'accepted': False, 'reason': 'timeout'}
TimeoutDefault == Data("reason", "timeout")

\* C12: offer_collaboration, once it has published its offer, raises nothing
\* and returns either the payload of the response its handler received or,
\* after the timeout has elapsed, the value {accepted: false, reason: timeout}.
C12_OfferTimeoutDefault ==
    \A c \in CallIds :
        ( /\ calls[c].kind = "offer_collaboration"
          /\ calls[c].published \in {"queued", "expired"}
          /\ calls[c].pc = "done" )
            => /\ calls[c].outcome = "returned"
               /\ \/ /\ calls[c].futDone
                     /\ calls[c].value = calls[c].futResult
                  \/ /\ calls[c].ended - calls[c].start >= calls[c].timeout
                     /\ calls[c].value = TimeoutDefault

\* C13: when the executor has run a task whose handler raised on a message
\* with requires_response set (task_request or collaboration_offer), an
\* error-shaped response to the sender, under the message's correlation id,
\* has been put on the bus by that run.
C13_ErrorResponsePublished ==
    [][\A i \in 1..Len(comms) : \A k \in 1..Len(comms[i].tasks) :
          LET task == comms[i].tasks[k]
          IN  ( /\ Len(comms') = Len(comms)
                /\ comms'[i].tasks = RemoveAt(comms[i].tasks, k)
                /\ task.handler = "raises"
                /\ task.msg.requires_response )
              => \E e \in 1..Len(message_queue') :
                     LET m == message_queue'[e].msg
                     IN  /\ m.mid >= nextMid
                         /\ m.correlation_id = task.msg.correlation_id
                         /\ m.receiver = task.msg.sender
                         /\ EndsWithResponse(m.message_type)
                         /\ m.payload.data \in {ErrorResponse,
                                                Data("response", ErrorResponse.val)}]_vars

(***************************************************************************)
(* Claims about the orchestrator's registry and tasks (SpecTasks).         *)
(***************************************************************************)
\* thread t has called `op` in this step
Began(t, op) ==
    /\ orch'.started = orch.started + 1
    /\ orch'.threads[t] # orch.threads[t]
    /\ orch'.threads[t].op = op

UniqueNames(agents) ==
    \A j \in 1..Len(agents), k \in 1..Len(agents) : agents[j].name = agents[k].name => j = k

\* C14: register_agent for a name that is in the registry raises ValueError
\* (the code's AlreadyRegistered) and changes neither the registry nor the
\* communicators nor the subscriptions; after every step, whatever the
\* interleaving of the callers, no two records of the registry carry the same
\* name.
C14_RegistrationUnique ==
    [][/\ UniqueNames(orch'.agents)
       /\ \A t \in OThreads :
              (Began(t, "register_agent") /\ is_registered(orch.agents, orch'.threads[t].agent))
              => /\ orch'.threads[t].pc = "done"
                 /\ orch'.threads[t].outcome = "ValueError"
                 /\ orch'.agents = orch.agents
                 /\ comms' = comms
                 /\ subscribers' = subscribers]_vars

C14_Witness ==
    \E t \in OThreads :
        /\ Frame(t).op = "register_agent"
        /\ Frame(t).pc = "done"
        /\ Frame(t).outcome = "ValueError"
        /\ is_registered(orch.agents, Frame(t).agent)

\* C15: execute_task raises ValueError (NotRegistered) for a name that is not
\* in the registry and RuntimeError (AgentBusy) for an agent whose status is
\* not idle; the call ends there, and the registry with its statuses, the
\* counters, the queue of the bus and the requests issued are as before.
C15_ExecuteTaskRejects ==
    [][\A t \in OThreads :
          LET a == orch'.threads[t].agent
              unknown == ~is_registered(orch.agents, a)
              busy == is_registered(orch.agents, a) /\ GetAgent(orch.agents, a).status # "idle"
          IN  (Began(t, "execute_task") /\ (unknown \/ busy))
              => /\ orch'.threads[t].pc = "done"
                 /\ orch'.threads[t].outcome = IF unknown THEN "ValueError" ELSE "RuntimeError"
                 /\ orch'.agents = orch.agents
                 /\ orch'.stats = orch.stats
                 /\ message_queue' = message_queue
                 /\ stats' = stats
                 /\ calls' = calls
                 /\ nextMid' = nextMid]_vars

C15_Witness ==
    \E t \in OThreads :
        /\ Frame(t).op = "execute_task"
        /\ Frame(t).pc = "done"
        /\ Frame(t).outcome = "RuntimeError"
        /\ Frame(t).call = 0

\* the status of the agent whose communicator is comm, "none" when its record
\* has been deleted
StatusOf(comm) ==
    IF \E k \in 1..Len(orch.agents) : orch.agents[k].communicator = comm
    THEN orch.agents[CHOOSE k \in 1..Len(orch.agents) : orch.agents[k].communicator = comm].status
    ELSE "none"

\* execute_task of thread t has ended after its send_task_request returned
TaskRequestReturned(t) ==
    /\ Frame(t).op = "execute_task"
    /\ Frame(t).pc = "done"
    /\ Frame(t).call # 0
    /\ calls[Frame(t).call].outcome = "returned"

\* execute_task of thread t has ended after its send_task_request raised
TaskRequestRaised(t) ==
    /\ Frame(t).op = "execute_task"
    /\ Frame(t).pc = "done"
    /\ Frame(t).call # 0
    /\ calls[Frame(t).call].outcome \in {"RuntimeError", "TypeError"}

\* C16: an execute_task on a registered idle agent whose request did not
\* raise returns the handler's response and leaves the agent idle; when it is
\* the only task the orchestrator has run, total_tasks = 1, successful_tasks
\* = 1 and failed_tasks = 0.
C16_TaskSucceeds ==
    \A t \in OThreads :
        TaskRequestReturned(t)
        => /\ Frame(t).outcome = "returned"
           /\ Frame(t).value = Data("response", HandlerResult.val)
           /\ Len(calls) = 1
              => /\ StatusOf(Frame(t).info) \in {"idle", "none"}
                 /\ orch.stats.total_tasks = 1
                 /\ orch.stats.successful_tasks = 1
                 /\ orch.stats.failed_tasks = 0

\* C17: an execute_task whose request raised ends with that same exception
\* and leaves the agent in status error; when it is the only task the
\* orchestrator has run, total_tasks = 1, failed_tasks = 1 and
\* successful_tasks = 0.
C17_TaskFailureReraised ==
    \A t \in OThreads :
        TaskRequestRaised(t)
        => /\ Frame(t).outcome = calls[Frame(t).call].outcome
           /\ Len(calls) = 1
              => /\ StatusOf(Frame(t).info) \in {"error", "none"}
                 /\ orch.stats.total_tasks = 1
                 /\ orch.stats.failed_tasks = 1
                 /\ orch.stats.successful_tasks = 0

\* C18: when register_agent leaves its calls of add_triple, whether the
\* knowledge graph raised or not, it returns the communicator, no exception
\* reaches the caller, and the agent is in the registry with status idle.
C18_RegistrationSurvivesAddTriple ==
    [][\A t \in OThreads :
          (Frame(t).pc = "add_triple" /\ orch'.threads[t].pc = "done")
          => /\ orch'.threads[t].outcome = "returned"
             /\ orch'.threads[t].value = Data("communicator", "object")
             /\ is_registered(orch'.agents, Frame(t).agent)
             /\ GetAgent(orch'.agents, Frame(t).agent).status = "idle"]_vars

(***************************************************************************)
(* Claims about collaborations and locks (SpecOrch).                       *)
(***************************************************************************)
NoDuplicates(seq) == \A j \in 1..Len(seq), k \in 1..Len(seq) : seq[j] = seq[k] => j = k

\* C19: in every session start_collaboration has stored, the participant
\* list starts with the initiator and holds no agent name twice.
C19_ParticipantsDeduplicated ==
    \A id \in DOMAIN orch.collaborations :
        LET session == orch.collaborations[id]
        IN  /\ session.participants[1] = session.initiator
            /\ NoDuplicates(session.participants)

\* thread t is inside a call that may block: add_triple of the knowledge
\* graph, or executor.shutdown(wait=True) of a communicator
Blocked(t) == Frame(t).pc \in {"add_triple", "cleanup", "cleanup_wait"}

HoldsLock(t) == orch.agent_lock = t \/ orch.collaboration_lock = t

\* C20: no thread is inside a blocking call while it holds agent_lock or
\* collaboration_lock.
C20_NoLockAcrossBlockingCall == \A t \in OThreads : ~(Blocked(t) /\ HoldsLock(t))

(***************************************************************************)
(* SpecSteps: one caller runs definitions s1, X, s3 where X ranges over    *)
(* the four step types: task steps, Parallel steps with up to MaxBranches  *)
(* branches, Conditional steps over conditions of every form, Loop steps   *)
(* over up to MaxItems items; on an engine with or without a dispatcher,   *)
(* with three inputs.                                                      *)
(***************************************************************************)
MaxBranches == 2
MaxItems == 2
BranchAgents == {"good", "bad", "slow"}
BranchLists == UNION {[1..n -> BranchAgents] : n \in 0..MaxBranches}

ParallelConfig(name, agents) ==
    DictV(("name" :> Word(name)) @@ ("step_type" :> Word("parallel"))
          @@ ("parallel" :> ListV([k \in 1..Len(agents) |->
                                      TaskConfig("b" \o ToString(k), agents[k])])))

ConditionalConfig(name, agent, condition) ==
    WithKey(WithKey(TaskConfig(name, agent), "step_type", Word("conditional")),
            "condition", condition)

LoopConfig(name, agent, loop) ==
    WithKey(WithKey(TaskConfig(name, agent), "step_type", Word("loop")), "loop", loop)

Conditions ==
    {StrV(<<"{{", "ready", "}}">>),
     StrV(<<"{{", " ", "count", " ", "}}">>),
     StrV(<<"ready">>),
     StrV(<<"${", "count", "}", " ", "==", " ", "2">>),
     StrV(<<"2", " ", "!=", " ", "{{", "count", "}}">>),
     StrV(<<"{{", "count", "}}", " ", "==", " ", "{{", "count", "}}">>),
     StrV(<<"true", " ", "==", " ", "1">>),
     BoolV(TRUE),
     IntV(1)}

ItemLists == UNION {[1..n -> {IntV(0), IntV(1)}] : n \in 0..MaxItems}

LoopSpecs ==
    {DictV("items" :> ListV(items)) : items \in ItemLists}
    \cup {DictV(("items" :> ListV(items)) @@ ("variable" :> Word("x"))) : items \in ItemLists}
    \cup {DictV("items" :> Word("items")), DictV("items" :> Word("absent")),
          DictV("variable" :> Word("x"))}

MiddleSteps ==
    {TaskConfig("s2", agent) : agent \in {"good", "bad"}}
    \cup {DictV(("name" :> Word("s2")) @@ ("action" :> Word("s2"))),
          DictV(("name" :> Word("s2")) @@ ("step_type" :> Word("parallel"))),
          DictV(("name" :> Word("s2")) @@ ("step_type" :> Word("loop"))),
          DictV(("name" :> Word("s2")) @@ ("step_type" :> Word("conditional")))}
    \cup {ParallelConfig("s2", agents) : agents \in BranchLists}
    \cup {ConditionalConfig("s2", agent, condition) :
              agent \in {"good", "bad"}, condition \in Conditions}
    \cup {LoopConfig("s2", agent, loop) : agent \in {"good", "picky"}, loop \in LoopSpecs}

\* the parameters of the last step: templates of a result, of an input and of
\* a name the context may lack, a path and a plain value
LastParameters ==
    DictV(("x" :> StrV(<<"{{", "s1_result", "}}">>))
          @@ ("y" :> StrV(<<"{{", "count", "}}">>))
          @@ ("z" :> StrV(<<"${", "s1_result", ".", "by", "}">>))
          @@ ("n" :> IntV(42)))

StepDefinitions ==
    {Definition(<<WithKey(TaskConfig("s1", "good"), "dependencies", ListV(<<Word("s3")>>)),
                  X, WithKey(TaskConfig("s3", "good"), "parameters", LastParameters)>>) :
         X \in MiddleSteps}
    \cup {Definition(<<>>),
          Definition(<<TaskConfig("s1", "good"), DictV("agent" :> Word("good"))>>)}

StepInputs ==
    {EmptyDictV,
     DictV(("ready" :> BoolV(TRUE)) @@ ("count" :> IntV(2))
           @@ ("items" :> ListV(<<IntV(1), IntV(0)>>))),
     DictV(("ready" :> BoolV(FALSE)) @@ ("count" :> IntV(1)) @@ ("items" :> ListV(<<>>)))}

InitSteps == \E orchestrator \in BOOLEAN : InitWith(orchestrator)

StepsLoad ==
    /\ eng.workflow_definitions = EmptyMap
    /\ \E d \in StepDefinitions : LoadWorkflowDefinition("w", d)

StepsExecuteWorkflow ==
    /\ Len(eng.executions) < MaxRuns
    /\ \E input \in StepInputs : ExecuteWorkflow("w1", "w", input, NoId)

NextSteps ==
    \/ StepsLoad
    \/ StepsExecuteWorkflow
    \/ EngineWorkflowStart
    \/ EngineWorkflowStep
    \/ EngineWorkflowFinish
    \/ EngineWorkflowCleanup

SpecSteps == InitSteps /\ [][NextSteps]_vars

(***************************************************************************)
(* Claims about the engine's executions (SpecEngine, SpecStatus).          *)
(***************************************************************************)
Terminal == {"completed", "failed", "cancelled"}

\* C21: the status of every execution changes only from pending to running
\* and from running to completed, failed or cancelled; a terminal status
\* never changes.
C21_StatusOnlyForward ==
    [][\A e \in 1..Len(eng.executions) :
          LET old == eng.executions[e].status
              new == eng'.executions[e].status
          IN  \/ new = old
              \/ old = "pending" /\ new = "running"
              \/ old = "running" /\ new \in Terminal]_vars

\* this step is a call of cancel_workflow
CancelStep == eng'.last.op = "cancel_workflow" /\ eng'.last # eng.last

\* C22: cancel_workflow(id) returns True exactly when id is in the active set
\* with an execution that is running, and then that execution is cancelled
\* with an end time; otherwise it returns False and no execution, no entry of
\* the active set and no caller changes.
C22_CancelOnlyRunning ==
    [][CancelStep =>
          LET id == eng'.last.workflow_id
              active == id \in DOMAIN eng.active_workflows
              e == eng.active_workflows[id]
          IN  /\ eng'.active_workflows = eng.active_workflows
              /\ eng'.threads = eng.threads
              /\ IF active /\ eng.executions[e].status = "running"
                 THEN /\ eng'.last.returned
                      /\ eng'.executions[e].status = "cancelled"
                      /\ eng'.executions[e].end_time # NoTime
                      /\ \A k \in 1..Len(eng.executions) :
                             k # e => eng'.executions[k] = eng.executions[k]
                 ELSE /\ ~eng'.last.returned
                      /\ eng'.executions = eng.executions]_vars

C22_Witness ==
    /\ eng.last.op = "cancel_workflow"
    /\ eng.last.found
    /\ ~eng.last.returned
    /\ eng.last.status = "completed"
    /\ \E e \in 1..Len(eng.executions) : eng.executions[e].status = "cancelled"

\* C23: once cancel_workflow has returned True for an execution, at most the
\* step that was in flight belongs to it: no second step begins.
C23_NoStepAfterCancel ==
    \A e \in 1..Len(eng.executions) :
        eng.executions[e].cancelled_at # NoCancel
        => Len(eng.executions[e].started) <= eng.executions[e].cancelled_at + 1

\* C25: when a top-level step raises, execute_workflow goes to its return
\* with success = False and the error, the status is failed, the error is in
\* errors, and no further step of the execution begins; and when
\* execute_workflow has returned, whatever the outcome, its execution is not
\* in the active set.
C25_FailFastAndCleanup ==
    [][\A t \in WThreads :
          LET e == Run(t).execution
              after == eng'.threads[t]
          IN  /\ (Run(t).pc = "steps" /\ after.pc = "finally" /\ ~after.result.success)
                 => /\ eng'.executions[e].status = "failed"
                    /\ \E k \in 1..Len(eng'.executions[e].errors) :
                           eng'.executions[e].errors[k] = after.result.error
                    /\ after.result.workflow_id = eng.executions[e].workflow_id
              /\ (Run(t).pc = "finally" /\ ~Run(t).result.success)
                 => /\ eng'.executions[e].started = eng.executions[e].started
                    /\ eng'.executions[e].status = "failed"
              /\ (after.pc = "done" /\ after.execution # 0)
                 => \A id \in DOMAIN eng'.active_workflows :
                        eng'.active_workflows[id] # after.execution]_vars

C25_Witness ==
    \E t \in WThreads :
        /\ Run(t).pc = "done"
        /\ Run(t).execution # 0
        /\ ~Run(t).result.success
        /\ Run(t).result.error = DispatcherError
        /\ eng.executions[Run(t).execution].started = <<"s1", "s2">>
        /\ eng.executions[Run(t).execution].status = "failed"

\* C26: while execute_workflow has registered its execution and the
\* execution's status is not terminal, get_workflow_status of its workflow id
\* returns that execution.
C26_StatusOfOwnExecution ==
    \A t \in WThreads :
        (/\ Run(t).pc \in {"registered", "steps"}
         /\ eng.executions[Run(t).execution].status \notin Terminal)
        => get_workflow_status(eng.active_workflows, Run(t).workflow_id) = Run(t).execution

(***************************************************************************)
(* Claims about the steps of a workflow (SpecSteps).                       *)
(***************************************************************************)
\* thread t takes a turn of the for loop: a step of its execution begins
StepTaken(t) ==
    /\ Run(t).pc = "steps"
    /\ Len(eng'.executions[Run(t).execution].started)
           = Len(eng.executions[Run(t).execution].started) + 1

\* the name the k-th step configuration of execution e gives
ConfiguredName(e, k) ==
    Join(Get(eng.executions[e].workflow_config, "steps", ListV(<<>>)).items[k].entries["name"].s)

\* the execute_task calls made in this step for execution e
NewlyDispatched(e) ==
    SubSeq(eng'.executions[e].dispatched, Len(eng.executions[e].dispatched) + 1,
           Len(eng'.executions[e].dispatched))

\* C24: the k-th step to begin is the k-th step of the definition, whatever
\* the dependencies say; when it begins, the context holds under
\* "<name>_result" the result execution.results holds for each earlier step,
\* and so does the context of every task it dispatches; when it finishes its
\* output is in execution.results[name] and context["<name>_result"] before
\* the next turn.
C24_DefinitionOrderAndResults ==
    [][\A t \in WThreads :
          StepTaken(t) =>
              LET e == Run(t).execution
                  k == Len(eng'.executions[e].started)
                  name == ConfiguredName(e, k)
                  earlier(c) ==
                      \A j \in 1..(k - 1) :
                          /\ (ConfiguredName(e, j) \o "_result") \in DOMAIN c.entries
                          /\ c.entries[ConfiguredName(e, j) \o "_result"]
                                 = eng.executions[e].results.entries[ConfiguredName(e, j)]
              IN  /\ eng'.executions[e].started[k] = name
                  /\ earlier(Run(t).context)
                  /\ \A d \in 1..Len(NewlyDispatched(e)) : earlier(NewlyDispatched(e)[d].context)
                  /\ eng'.threads[t].pc = "steps"
                     => /\ name \in DOMAIN eng'.executions[e].results.entries
                        /\ (name \o "_result") \in DOMAIN eng'.threads[t].context.entries
                        /\ eng'.threads[t].context.entries[name \o "_result"]
                               = eng'.executions[e].results.entries[name]]_vars

C24_Witness ==
    \E e \in 1..Len(eng.executions) :
        /\ eng.executions[e].started = <<"s1", "s2", "s3">>
        /\ eng.executions[e].status = "completed"
        /\ Len(eng.executions[e].dispatched) = 4
        /\ eng.executions[e].dispatched[4].agent = "good"
        /\ eng.executions[e].dispatched[4].action = Word("s3")
        /\ "s2_result" \in DOMAIN eng.executions[e].dispatched[4].context.entries
        /\ Get(eng.executions[e].workflow_config, "steps", ListV(<<>>)).items[1]
               .entries["dependencies"] = ListV(<<Word("s3")>>)


\* the step thread t is about to run
Current(t) == Head(Run(t).steps)

\* the value the turn just taken by t stored for its step
Stored(t) == eng'.executions[Run(t).execution].results.entries[NameOf(Current(t))]

\* the Parallel step t has just run returned a map with one entry per nested
\* step, an {error: ...} entry for a nested step whose agent raises or does
\* not answer, and every nested step was dispatched
ParallelContained(t) ==
    LET branches == Current(t).parallel_steps
    IN  /\ eng'.threads[t].pc = "steps"
        /\ NameOf(Current(t)) \in DOMAIN eng'.executions[Run(t).execution].results.entries
        /\ Stored(t).kind = "dict"
        /\ DOMAIN Stored(t).entries = {NameOf(branches[k]) : k \in 1..Len(branches)}
        /\ Cardinality(DOMAIN Stored(t).entries) = Len(branches)
        /\ eng.orchestrator =>
               /\ Len(NewlyDispatched(Run(t).execution)) = Len(branches)
               /\ \A k \in 1..Len(branches) :
                      LET slot == Stored(t).entries[NameOf(branches[k])]
                      IN  IF branches[k].agent \in {Word("bad"), Word("slow")}
                          THEN DOMAIN slot.entries = {"error"}
                          ELSE "error" \notin DOMAIN slot.entries

\* C27: a Parallel step with N >= 0 nested steps never raises and returns a
\* map with exactly N entries, one per nested step: {error: message} for a
\* nested step that raises or times out, its result for every other, all of
\* them having run.
C27_ParallelContainment ==
    [][\A t \in WThreads :
          (StepTaken(t) /\ Current(t).step_type = "parallel") => ParallelContained(t)]_vars


\* thread t has just run a Conditional step that has a condition
ConditionalTaken(t) ==
    StepTaken(t) /\ Current(t).step_type = "conditional" /\ Truthy(Current(t).condition)

\* C28: a Conditional step whose condition evaluates falsy against the
\* current context returns {skipped: True, reason: "condition_not_met"} and
\* calls execute_task not at all; one whose condition evaluates truthy makes
\* the calls of a Task step, a single execute_task call on the step's agent
\* with the current context, and what that returns is the step's result.
C28_ConditionalSkipsOrDispatches ==
    [][\A t \in WThreads :
          (ConditionalTaken(t) /\ ~condition_raises(Current(t).condition, Run(t).context)) =>
              LET e == Run(t).execution
                  as_task == execute_task_step(eng.orchestrator, Current(t), Run(t).context)
              IN  IF condition_value(Current(t).condition, Run(t).context)
                  THEN /\ NewlyDispatched(e) = as_task.dispatched
                       /\ (eng.orchestrator /\ Truthy(Current(t).agent))
                          => /\ Len(NewlyDispatched(e)) = 1
                             /\ NewlyDispatched(e)[1].agent = Join(Current(t).agent.s)
                             /\ NewlyDispatched(e)[1].context = Run(t).context
                       /\ as_task.state = "ok"
                          => /\ eng'.threads[t].pc = "steps"
                             /\ Stored(t) = as_task.value
                       /\ as_task.state = "raise" => eng'.threads[t].pc = "finally"
                  ELSE /\ eng'.threads[t].pc = "steps"
                       /\ Stored(t) = Skipped
                       /\ NewlyDispatched(e) = <<>>]_vars

C28_Witness ==
    \E e1, e2 \in 1..Len(eng.executions) :
        /\ eng.orchestrator
        /\ eng.executions[e1].workflow_config = eng.executions[e2].workflow_config
        /\ Len(Get(eng.executions[e1].workflow_config, "steps", ListV(<<>>)).items) = 3
        /\ Get(eng.executions[e1].workflow_config, "steps", ListV(<<>>)).items[2]
               = ConditionalConfig("s2", "good", StrV(<<"{{", "ready", "}}">>))
        /\ eng.executions[e1].status = "completed"
        /\ "s2" \in DOMAIN eng.executions[e1].results.entries
        /\ eng.executions[e1].results.entries["s2"] = Skipped
        /\ Len(eng.executions[e1].dispatched) = 2
        /\ eng.executions[e2].status = "completed"
        /\ "s2" \in DOMAIN eng.executions[e2].results.entries
        /\ eng.executions[e2].results.entries["s2"] # Skipped
        /\ Len(eng.executions[e2].dispatched) = 3

\* C29: a Conditional step whose condition cannot be evaluated raises: the
\* workflow goes to its failure with status failed, nothing is stored as the
\* step's result and execute_task is not called.
C29_ConditionErrorRaised ==
    [][\A t \in WThreads :
          (ConditionalTaken(t) /\ condition_raises(Current(t).condition, Run(t).context)) =>
              /\ eng'.threads[t].pc = "finally"
              /\ eng'.executions[Run(t).execution].status = "failed"
              /\ NameOf(Current(t)) \notin DOMAIN eng'.executions[Run(t).execution].results.entries
              /\ NewlyDispatched(Run(t).execution) = <<>>]_vars

\* the iterable of the Loop step t is about to run: the literal list, or what
\* the context holds under the reference, an absent reference counting as []
LoopItems(t) ==
    LET given == Get(Current(t).loop_config, "items", ListV(<<>>))
    IN  IF given.kind = "list" THEN given.items
        ELSE IF Join(given.s) \in DOMAIN Run(t).context.entries
        THEN Run(t).context.entries[Join(given.s)].items
        ELSE <<>>

LoopVar(t) == Join(Get(Current(t).loop_config, "variable", Word("item")).s)

\* C30: a Loop step over n items raises nothing and returns a list of n slots
\* in item order; iteration i (from 0) runs the body as a task whose context
\* is the current context with context[loop_var] = item i and
\* context["loop_index"] = i; the slot of an iteration that fails is
\* {error, item, index} and the later iterations still run; for n = 0 the
\* result is [].
C30_LoopSlots ==
    [][\A t \in WThreads :
          (StepTaken(t) /\ Current(t).step_type = "loop" /\ Truthy(Current(t).loop_config)) =>
              LET e == Run(t).execution
                  items == LoopItems(t)
                  n == Len(items)
                  tasks == NewlyDispatched(e)
              IN  /\ eng'.threads[t].pc = "steps"
                  /\ Stored(t).kind = "list"
                  /\ Len(Stored(t).items) = n
                  /\ n = 0 => Stored(t) = ListV(<<>>)
                  /\ IF eng.orchestrator
                     THEN /\ Len(tasks) = n
                          /\ \A i \in 1..n :
                                 /\ tasks[i].context.entries[LoopVar(t)] = items[i]
                                 /\ tasks[i].context.entries["loop_index"] = IntV(i - 1)
                                 /\ \A key \in DOMAIN Run(t).context.entries
                                                   \ {LoopVar(t), "loop_index"} :
                                        tasks[i].context.entries[key] = Run(t).context.entries[key]
                                 /\ Stored(t).items[i] =
                                        IF DispatcherBehaviour(tasks[i].agent, tasks[i]) = "raise"
                                        THEN LoopError(DispatcherError, items[i], i - 1)
                                        ELSE DispatcherResult(tasks[i].agent, tasks[i])
                     ELSE /\ tasks = <<>>
                          /\ \A i \in 1..n :
                                 Stored(t).items[i] =
                                     LoopError("No agent orchestrator configured", items[i], i - 1)]_vars

C30_Witness ==
    \E e \in 1..Len(eng.executions) :
        /\ eng.executions[e].status = "completed"
        /\ "s2" \in DOMAIN eng.executions[e].results.entries
        /\ eng.executions[e].results.entries["s2"].kind = "list"
        /\ Len(eng.executions[e].results.entries["s2"].items) = 2
        /\ eng.executions[e].results.entries["s2"].items[1]
               = LoopError(DispatcherError, IntV(0), 0)
        /\ "by" \in DOMAIN eng.executions[e].results.entries["s2"].items[2].entries
        /\ Len(eng.executions[e].dispatched) = 4
        /\ eng.executions[e].dispatched[3].context.entries["loop_index"] = IntV(1)


\* the name in a parameter value that is exactly "{{name}}"
IsExactTemplate(value) ==
    value.kind = "str" /\ Len(value.s) = 3 /\ value.s[1] = "{{" /\ value.s[3] = "}}"

\* C31: a Task step dispatches, for each parameter whose value is exactly
\* "{{name}}" with name in the context, the value context[name]; so a step
\* with x = "{{s1_result}}" is dispatched with x equal to what s1 returned.
C31_TemplateParameter ==
    [][\A t \in WThreads :
          (StepTaken(t) /\ Current(t).step_type = "task") =>
              \A d \in 1..Len(NewlyDispatched(Run(t).execution)) :
                  \A key \in DOMAIN Current(t).parameters.entries :
                      LET value == Current(t).parameters.entries[key]
                          task == NewlyDispatched(Run(t).execution)[d]
                      IN  /\ key \in DOMAIN task.parameters.entries
                          /\ (IsExactTemplate(value) /\ value.s[2] \in DOMAIN Run(t).context.entries)
                             => task.parameters.entries[key] = Run(t).context.entries[value.s[2]]]_vars

C31_Witness ==
    \E e \in 1..Len(eng.executions) :
        /\ eng.executions[e].started = <<"s1", "s2", "s3">>
        /\ eng.executions[e].dispatched # <<>>
        /\ LET task == eng.executions[e].dispatched[Len(eng.executions[e].dispatched)]
           IN  /\ task.action = Word("s3")
               /\ task.parameters.entries["x"] = eng.executions[e].results.entries["s1"]
               /\ task.parameters.entries["x"] = DispatcherResult("good", [action |-> Word("s1")])
               /\ task.parameters.entries["y"] = IntV(2)

\* C32: a condition "L == R" (resp. "L != R") is split on the first
\* occurrence of the operator, each side resolved against the context, and
\* the step runs exactly when the resolved values are equal (resp. differ),
\* also when both sides are "{{...}}" templates.
C32_ComparisonOfResolvedSides ==
    [][\A t \in WThreads :
          (/\ ConditionalTaken(t)
           /\ eng.orchestrator
           /\ Current(t).condition.kind = "str"
           /\ Contains(Current(t).condition.s, "==") \/ Contains(Current(t).condition.s, "!=")) =>
              LET pieces == Current(t).condition.s
                  marker == IF Contains(pieces, "==") THEN "==" ELSE "!="
                  equal == PyEq(Sides(pieces, marker, Run(t).context).left,
                                Sides(pieces, marker, Run(t).context).right)
                  holds == IF marker = "==" THEN equal ELSE ~equal
              IN  IF holds
                  THEN Len(NewlyDispatched(Run(t).execution)) = 1
                  ELSE NewlyDispatched(Run(t).execution) = <<>> /\ Stored(t) = Skipped]_vars


(***************************************************************************)
(* Claims about concurrent tasks, failed agents and unregistration         *)
(* (SpecTasks).                                                            *)
(***************************************************************************)
\* thread t is inside execute_task past the status test, for the agent whose
\* communicator is comm
TaskInFlight(t, comm) ==
    /\ Frame(t).op = "execute_task"
    /\ Frame(t).pc \in {"checked", "sent", "failed", "experience"}
    /\ Frame(t).info = comm

\* C37: no two threads are inside execute_task past the status test for the
\* same agent: of two concurrent calls on an idle agent one proceeds and the
\* other has raised RuntimeError (AgentBusy).
C37_OneTaskInFlight ==
    \A t1, t2 \in OThreads :
        (\E comm \in 1..Len(comms) : TaskInFlight(t1, comm) /\ TaskInFlight(t2, comm)) => t1 = t2

\* execute_task of thread t has ended in its except block, which has set the
\* status of the agent it held to error
TaskFailed(t) ==
    /\ Frame(t).op = "execute_task"
    /\ Frame(t).pc = "done"
    /\ Frame(t).info # 0
    /\ Frame(t).outcome # "returned"

\* C38: an agent record whose status has become error through a failed
\* execute_task is never idle again (a registration after unregister_agent
\* makes a new record), so that execute_task keeps raising RuntimeError for
\* it and find_agents_by_capability never returns it.
C38_ErrorIsFinal ==
    \A t \in OThreads : TaskFailed(t) => StatusOf(Frame(t).info) # "idle"

\* C39: every _handle_message callback subscribed to a topic agent.<name>
\* belongs to the communicator of the record the registry holds under that
\* name, and no such topic has two of them: unregister_agent leaves no
\* subscription of the removed communicator behind.
C39_UnsubscribedOnUnregister ==
    \A a \in Agents :
        LET subs == subscribers[AgentTopic(a)]
            own == {k \in 1..Len(subs) : subs[k].cb.kind = "comm"}
        IN  /\ Cardinality(own) <= 1
            /\ \A k \in own :
                   /\ is_registered(orch.agents, a)
                   /\ GetAgent(orch.agents, a).communicator = subs[k].cb.comm


(***************************************************************************)
(* The collaborators of the guard as their code is.                        *)
(*                                                                         *)
(* tracing.instrument_memory_operation is a plain function without a       *)
(* return statement, so MemoryStore.read and MemoryStore.write, whose      *)
(* first statement is `with instrument_memory_operation(...)`, raise       *)
(* TypeError before anything else.  RateLimiter.acquire is decorated with  *)
(* @contextmanager but has no yield: calling it runs its body at once, and *)
(* a return value is wrapped in a _GeneratorContextManager.               *)
(***************************************************************************)
instrument_memory_operation == "None"

\* `with value:` - None has no __enter__
with_statement(value) == IF value = "None" THEN "TypeError" ELSE "entered"

\* Quota.rps
RPS == 10

\* limiter.acquire(entity, action, {"tokens": n}) within one 60 s window: the
\* call is counted; from the RPS-th on it returns (False, msg); before that
\* `self._usage[entity][metric].get("minute", 0)` is .get on the float 0.0
acquire(windows, entity) ==
    LET rps_current == (IF entity \in DOMAIN windows THEN windows[entity] ELSE 0) + 1
    IN  [windows |-> Put(windows, entity, rps_current),
         raised |-> IF rps_current >= RPS THEN "none" ELSE "AttributeError"]

StepExecution(step_id, dedupe_key, inputs, outputs, executed_at, job_token) ==
    [step_id |-> step_id, dedupe_key |-> dedupe_key, inputs |-> inputs, outputs |-> outputs,
     executed_at |-> executed_at, status |-> "success", job_token |-> job_token]

NoRecord == StepExecution("", NoKey, NoInputs, NoOutputs, 0, NoToken)

AccessLog(operation, namespace, key) ==
    [operation |-> operation, namespace |-> namespace, key |-> key]

\* MemoryStore.read without line 117: absent for a key the namespace lacks,
\* else the data (the guard writes without ttl) and an access log entry
memory_read_uninstrumented(s, namespace, key) ==
    IF <<namespace, key>> \notin DOMAIN s.store
    THEN [raised |-> "none", found |-> FALSE, data |-> NoRecord, access_logs |-> s.access_logs]
    ELSE [raised |-> "none", found |-> TRUE, data |-> s.store[<<namespace, key>>],
          access_logs |-> Append(s.access_logs, AccessLog("read", namespace, key))]

\* MemoryStore.read
memory_read(s, namespace, key) ==
    IF with_statement(instrument_memory_operation) = "TypeError"
    THEN [raised |-> "TypeError", found |-> FALSE, data |-> NoRecord,
          access_logs |-> s.access_logs]
    ELSE memory_read_uninstrumented(s, namespace, key)

\* MemoryStore.write: line 88 raises; past it `allowed, msg = limiter.acquire(...)`
\* raises AttributeError in acquire or TypeError for unpacking the context
\* manager, so the entry is stored on no path
memory_write(s, namespace, key, data) ==
    IF with_statement(instrument_memory_operation) = "TypeError"
    THEN [raised |-> "TypeError", windows |-> s.windows]
    ELSE LET a == acquire(s.windows, namespace)
         IN  [raised |-> IF a.raised = "none" THEN "TypeError" ELSE a.raised,
              windows |-> a.windows]

(***************************************************************************)
(* WorkflowSafety.  execute_step has no lock; its steps are the lookup,    *)
(* the outbox entry, the step body, the journal record, the write to the   *)
(* memory store and the removal of the outbox entry.                       *)
(***************************************************************************)
\* json.dumps(data, sort_keys=True, default=str): a tuple is dumped as a list
json_dumps(data) == [a |-> IF data.a = "(1,)" THEN "[1]" ELSE data.a]

\* _content_address
content_address(data) == HexDigest(json_dumps(data))

\* f"workflow_{self.workflow_id}_journal"
Namespace(workflow_id) == "workflow_" \o workflow_id \o "_journal"

\* random.seed(seed); random.randint(1, 100): a function of the seed
randint(seed) == (seed % 100) + 1

\* how many calls one caller thread makes
MaxGuardCalls == 3

Drop(d, k) == [x \in DOMAIN d \ {k} |-> d[x]]

Caller(t) == safety.threads[t]
CanBegin(t) == Caller(t).pc \in {"idle", "done"} /\ Caller(t).count < MaxGuardCalls
BeginCall(f, op) ==
    [IdleCall EXCEPT !.op = op, !.workflow_id = f.workflow_id, !.guard = f.guard,
                     !.count = f.count + 1]
Ended(f, t, value) ==
    [thread |-> t, workflow_id |-> f.workflow_id, guard |-> f.guard,
     dedupe_key |-> f.dedupe_key, outputs |-> value.outputs]

\* the call of thread t ends: by an exception, or with a value
EndCall(s, t, raised, value) ==
    LET f == s.threads[t]
    IN  [s EXCEPT !.threads[t] = [f EXCEPT !.pc = "done",
                                           !.outcome = IF raised = "none" THEN "returned"
                                                       ELSE "raised",
                                           !.raised = raised, !.value = value],
                  !.completed = IF f.op = "execute_step" THEN Append(@, Ended(f, t, value)) ELSE @]

Replay(outputs) == [NoReturn EXCEPT !.kind = "context_manager", !.is_replay = TRUE,
                                    !.outputs = outputs]
Executed(outputs) == [NoReturn EXCEPT !.kind = "context_manager", !.outputs = outputs]

\* _find_step: the first journal record with the key, else memory.read
find_step(s, g, dedupe_key) ==
    LET journal == s.guards[g].journal
        hits == {i \in 1..Len(journal) : journal[i].dedupe_key = dedupe_key}
    IN  IF hits # {}
        THEN [raised |-> "none", found |-> TRUE,
              data |-> journal[CHOOSE i \in hits : \A j \in hits : i <= j],
              access_logs |-> s.access_logs]
        ELSE memory_read(s, Namespace(s.guards[g].workflow_id), dedupe_key)

\* execute_step, lines 62-66
lookup(s, t) ==
    LET f == s.threads[t]
        r == find_step(s, f.guard, f.dedupe_key)
    IN  IF r.raised # "none" THEN EndCall(s, t, r.raised, NoReturn)
        ELSE IF r.found
        THEN EndCall([s EXCEPT !.access_logs = r.access_logs], t, "none",
                     Replay(r.data.outputs))
        ELSE [s EXCEPT !.access_logs = r.access_logs, !.threads[t].pc = "outbox"]

\* lines 69-71: job_token = str(uuid.uuid4()); self.outbox[job_token] = entry
register_outbox(s, t) ==
    LET f == s.threads[t]
        entry == [step_id |-> f.step_id, dedupe_key |-> f.dedupe_key, inputs |-> f.inputs,
                  job_token |-> s.next_token]
    IN  [s EXCEPT !.guards[f.guard].outbox = Put(@, s.next_token, entry),
                  !.next_token = @ + 1,
                  !.threads[t] = [f EXCEPT !.pc = "simulate", !.job_token = s.next_token]]

\* lines 73-79 and _simulate_step: the output is computed, then limiter.acquire
simulate_step(s, t) ==
    LET f == s.threads[t]
        guard == s.guards[f.guard]
        a == acquire(s.windows, guard.workflow_id)
        ran == [s EXCEPT !.windows = a.windows,
                         !.runs = Append(@, [guard |-> f.guard, dedupe_key |-> f.dedupe_key,
                                             thread |-> t, count |-> f.count])]
        simulated_output == [result |-> randint(guard.seed),
                             processed_at |-> guard.clock_injected]
    IN  IF a.raised # "none" THEN EndCall(ran, t, a.raised, NoReturn)
        ELSE [ran EXCEPT !.threads[t] = [f EXCEPT !.pc = "journal",
                                                  !.outputs = simulated_output]]

\* lines 82-91: self.journal.append(execution)
append_journal(s, t, at) ==
    LET f == s.threads[t]
    IN  [s EXCEPT !.guards[f.guard].journal =
                      Append(@, StepExecution(f.step_id, f.dedupe_key, f.inputs, f.outputs,
                                              at, f.job_token)),
                  !.threads[t].pc = "persist"]

\* line 94: memory.write(namespace, f"step_{len(self.journal)}", execution.__dict__)
persist(s, t, at) ==
    LET f == s.threads[t]
        guard == s.guards[f.guard]
        w == memory_write(s, Namespace(guard.workflow_id), StepKey(Len(guard.journal)),
                          StepExecution(f.step_id, f.dedupe_key, f.inputs, f.outputs, at,
                                        f.job_token))
        written == [s EXCEPT !.windows = w.windows]
    IN  IF w.raised # "none" THEN EndCall(written, t, w.raised, NoReturn)
        ELSE [written EXCEPT !.threads[t].pc = "clear"]

\* lines 97-100: del self.outbox[job_token]; return False, outputs
clear_outbox(s, t) ==
    LET f == s.threads[t]
    IN  EndCall([s EXCEPT !.guards[f.guard].outbox = Drop(@, f.job_token)], t, "none",
                Executed(f.outputs))

(***************************************************************************)
(* The calls of the guard's caller threads.                                *)
(***************************************************************************)
OtherVars == <<now, subscribers, message_queue, response_futures, stats, comms, calls,
               nextMid, lastOp, orch, eng>>

\* get_workflow_safety: the test `workflow_id not in workflows_safety`
GetWorkflowSafety(t, workflow_id) ==
    /\ CanBegin(t)
    /\ safety' = [safety EXCEPT !.threads[t] =
           [BeginCall(Caller(t), "get_workflow_safety") EXCEPT
                !.workflow_id = workflow_id,
                !.pc = IF workflow_id \in DOMAIN safety.workflows_safety THEN "return"
                       ELSE "create"]]
    /\ UNCHANGED OtherVars

\* workflows_safety[workflow_id] = WorkflowSafety(workflow_id)
GetWorkflowSafetyCreate(t) ==
    /\ Caller(t).op = "get_workflow_safety"
    /\ Caller(t).pc = "create"
    /\ safety' = [safety EXCEPT
           !.guards = Append(@, WorkflowSafety(Caller(t).workflow_id, now)),
           !.workflows_safety = Put(@, Caller(t).workflow_id, Len(safety.guards) + 1),
           !.threads[t].pc = "return"]
    /\ UNCHANGED OtherVars

\* return workflows_safety[workflow_id]
GetWorkflowSafetyReturn(t) ==
    /\ Caller(t).op = "get_workflow_safety"
    /\ Caller(t).pc = "return"
    /\ LET g == safety.workflows_safety[Caller(t).workflow_id]
       IN  safety' = EndCall([safety EXCEPT !.threads[t].guard = g], t, "none",
                             [NoReturn EXCEPT !.kind = "guard", !.guard = g])
    /\ UNCHANGED OtherVars

\* guard.execute_step(step_id, inputs, dedupe_key) up to the dedupe key, lines
\* 57-60; began is the number of execute_step calls that had ended by then
ExecuteStep(t, step_id, inputs, dedupe_key) ==
    /\ CanBegin(t)
    /\ Caller(t).guard # 0
    /\ LET key == IF dedupe_key = NoKey THEN content_address(inputs) ELSE dedupe_key
           f == BeginCall(Caller(t), "execute_step")
       IN  safety' = [safety EXCEPT !.threads[t] =
               [f EXCEPT !.pc = "find", !.step_id = step_id, !.inputs = inputs,
                         !.dedupe_key = key, !.began = Len(safety.completed)]]
    /\ UNCHANGED OtherVars

\* the next step of execute_step
ExecuteStepAdvance(t) ==
    /\ Caller(t).op = "execute_step"
    /\ Caller(t).pc \notin {"idle", "done"}
    /\ safety' = CASE Caller(t).pc = "find" -> lookup(safety, t)
                   [] Caller(t).pc = "outbox" -> register_outbox(safety, t)
                   [] Caller(t).pc = "simulate" -> simulate_step(safety, t)
                   [] Caller(t).pc = "journal" -> append_journal(safety, t, now)
                   [] Caller(t).pc = "persist" -> persist(safety, t, now)
                   [] Caller(t).pc = "clear" -> clear_outbox(safety, t)
    /\ UNCHANGED OtherVars

\* guard.get_outbox(): self.outbox.copy()
GetOutbox(t) ==
    /\ CanBegin(t)
    /\ Caller(t).guard # 0
    /\ LET f == BeginCall(Caller(t), "get_outbox")
       IN  safety' = EndCall([safety EXCEPT !.threads[t] = f], t, "none",
                             [NoReturn EXCEPT !.kind = "dict",
                                              !.outbox = safety.guards[f.guard].outbox])
    /\ UNCHANGED OtherVars

(***************************************************************************)
(* SpecSafety: two threads obtain the guard of one workflow and call       *)
(* execute_step and get_outbox on it.                                      *)
(***************************************************************************)
GuardWorkflows == {"wf"}
GuardSteps == {"s1"}
\* the inputs and the dedupe_key argument of a call
GuardArguments == {<<[a |-> "(1,)"], NoKey>>, <<[a |-> "1"], GivenKey("k1")>>}

SafetyGetWorkflowSafety ==
    \E t \in SThreads, workflow_id \in GuardWorkflows : GetWorkflowSafety(t, workflow_id)
SafetyGetWorkflowSafetyCreate == \E t \in SThreads : GetWorkflowSafetyCreate(t)
SafetyGetWorkflowSafetyReturn == \E t \in SThreads : GetWorkflowSafetyReturn(t)
SafetyExecuteStep ==
    \E t \in SThreads, step_id \in GuardSteps, args \in GuardArguments :
        ExecuteStep(t, step_id, args[1], args[2])
SafetyExecuteStepAdvance == \E t \in SThreads : ExecuteStepAdvance(t)
SafetyGetOutbox == \E t \in SThreads : GetOutbox(t)

NextSafety ==
    \/ SafetyGetWorkflowSafety
    \/ SafetyGetWorkflowSafetyCreate
    \/ SafetyGetWorkflowSafetyReturn
    \/ SafetyExecuteStep
    \/ SafetyExecuteStepAdvance
    \/ SafetyGetOutbox

SpecSafety == Init /\ [][NextSafety]_vars

(***************************************************************************)
(* Claims about the idempotency guard (SpecSafety).                        *)
(***************************************************************************)
\* the execute_step calls with the key and on the guard of call f that had
\* ended when f began
PriorOnGuard(f) ==
    {i \in 1..f.began : /\ safety.completed[i].guard = f.guard
                        /\ safety.completed[i].dedupe_key = f.dedupe_key}

\* no other thread calls or has called execute_step
Alone(t) ==
    /\ \A i \in 1..Len(safety.completed) : safety.completed[i].thread = t
    /\ \A u \in SThreads \ {t} : Caller(u).op # "execute_step"

RecordsOf(g, key) ==
    {i \in 1..Len(safety.guards[g].journal) : safety.guards[g].journal[i].dedupe_key = key}
RunsOf(g, key) ==
    {i \in 1..Len(safety.runs) : /\ safety.runs[i].guard = g
                                 /\ safety.runs[i].dedupe_key = key}
Finished(t) == Caller(t).op = "execute_step" /\ Caller(t).pc = "done"

\* C33: a thread that calls execute_step(id, inputs) without a dedupe key on
\* one guard, no other thread calling, gets the pair (False, out) from the
\* first call with these inputs and (True, out) from every later one, with
\* the out of the journal's record; the step body has run once and the
\* journal holds exactly one record for the key
C33_Idempotence ==
    \A t \in SThreads :
        LET f == Caller(t)
            journal == safety.guards[f.guard].journal
        IN  (Finished(t) /\ f.dedupe_key.form = "sha256" /\ Alone(t)) =>
                /\ f.outcome = "returned"
                /\ f.value.kind = "tuple"
                /\ f.value.is_replay = (PriorOnGuard(f) # {})
                /\ Cardinality(RecordsOf(f.guard, f.dedupe_key)) = 1
                /\ Cardinality(RunsOf(f.guard, f.dedupe_key)) = 1
                /\ \A i \in RecordsOf(f.guard, f.dedupe_key) :
                       journal[i].outputs = f.value.outputs

\* the execute_step calls with the key of call f, on any guard of f's
\* workflow, that had ended when f began
PriorForWorkflow(f) ==
    {i \in 1..f.began : /\ safety.completed[i].workflow_id = f.workflow_id
                        /\ safety.completed[i].dedupe_key = f.dedupe_key}

\* the journal records of f's guard with f's key that f did not append
RecordsOfOthers(f) ==
    {i \in RecordsOf(f.guard, f.dedupe_key) :
         safety.guards[f.guard].journal[i].job_token # f.job_token}

\* the runs of the step body made by the current call of thread t
OwnRuns(t) ==
    {i \in 1..Len(safety.runs) : /\ safety.runs[i].thread = t
                                 /\ safety.runs[i].count = Caller(t).count}

\* C34: once execute_step has been called with key k for a workflow, a call
\* with k on a guard of that workflow whose journal has no record for k gets
\* (True, previous outputs) from the durable store: it does not run the step
\* body, registers no outbox entry and appends nothing to the journal
C34_ReplayFromDurableStore ==
    \A t \in SThreads :
        LET f == Caller(t)
        IN  (Finished(t) /\ PriorForWorkflow(f) # {} /\ RecordsOfOthers(f) = {}) =>
                /\ f.outcome = "returned"
                /\ f.value.is_replay
                /\ \E i \in PriorForWorkflow(f) : f.value.outputs = safety.completed[i].outputs
                /\ f.job_token = NoToken
                /\ OwnRuns(t) = {}

\* what the memory store holds for the journal of workflow_id
Persisted(workflow_id) ==
    {k \in DOMAIN safety.store : k[1] = Namespace(workflow_id)}

\* call f found its key neither in its guard's journal nor in the store
Miss(f) ==
    /\ RecordsOfOthers(f) = {}
    /\ \A k \in Persisted(f.workflow_id) : k[2] # f.dedupe_key

OwnRecords(f) ==
    {i \in 1..Len(safety.guards[f.guard].journal) :
         /\ f.job_token # NoToken
         /\ safety.guards[f.guard].journal[i].job_token = f.job_token}

\* C35: a call of execute_step on a miss registers its outbox entry under a
\* fresh token, runs the step body, appends the journal record, persists it
\* and removes the outbox entry, in this order: the entry is in the outbox
\* from its registration until the record is persisted, and a call that has
\* ended on a miss returned (False, outputs) with the record appended and
\* persisted and its token no longer in the outbox
C35_EffectOrder ==
    \A t \in SThreads :
        LET f == Caller(t)
            outbox == safety.guards[f.guard].outbox
            persisted == {k \in Persisted(f.workflow_id) :
                              safety.store[k].job_token = f.job_token}
        IN  f.op = "execute_step" =>
                /\ OwnRuns(t) # {} => f.job_token # NoToken
                /\ OwnRecords(f) # {} => OwnRuns(t) # {}
                /\ persisted # {} => OwnRecords(f) # {}
                /\ (f.job_token # NoToken /\ persisted = {}) => f.job_token \in DOMAIN outbox
                /\ (f.pc = "done" /\ Miss(f)) =>
                       /\ f.outcome = "returned"
                       /\ ~f.value.is_replay
                       /\ OwnRecords(f) # {}
                       /\ persisted # {}
                       /\ f.job_token \notin DOMAIN outbox

\* the journal records of all guards of one workflow, as <<guard, index>>
Records ==
    {r \in (1..Len(safety.guards)) \X (1..(2 * MaxGuardCalls + 2)) :
         r[2] <= Len(safety.guards[r[1]].journal)}
RecordAt(r) == safety.guards[r[1]].journal[r[2]]

OneRecordPerKey ==
    /\ \A r, q \in Records :
           (/\ safety.guards[r[1]].workflow_id = safety.guards[q[1]].workflow_id
            /\ RecordAt(r).dedupe_key = RecordAt(q).dedupe_key) => r = q
    /\ \A i, j \in 1..Len(safety.runs) :
           (/\ safety.guards[safety.runs[i].guard].workflow_id
                   = safety.guards[safety.runs[j].guard].workflow_id
            /\ safety.runs[i].dedupe_key = safety.runs[j].dedupe_key) => i = j

JournalAppendOnly ==
    /\ Len(safety'.guards) >= Len(safety.guards)
    /\ \A g \in 1..Len(safety.guards) :
           /\ Len(safety'.guards[g].journal) >= Len(safety.guards[g].journal)
           /\ \A i \in 1..Len(safety.guards[g].journal) :
                  safety'.guards[g].journal[i] = safety.guards[g].journal[i]

\* C36: whatever the threads do, also when their execute_step calls with one
\* dedupe key overlap, the journals of a workflow hold at most one record for
\* a dedupe key and the step body has run at most once for it, and a step
\* only appends to a journal: no record is changed, moved or removed
C36_OneRecordPerKey == [][OneRecordPerKey' /\ JournalAppendOnly]_vars

\* two calls of execute_step with one key on one guard, neither of which had
\* ended when the other began, have both ended
C36_Witness ==
    \E t, u \in SThreads :
        /\ t # u
        /\ Finished(t) /\ Finished(u)
        /\ Caller(t).guard = Caller(u).guard
        /\ Caller(t).dedupe_key = Caller(u).dedupe_key
        /\ Caller(t).began = Caller(u).began

\* C40 is about a call of execute_step whose step body raises on a miss.  No
\* call reaches the step body: the lookup that precedes it raises
StepBodyNeverRuns == safety.runs = <<>> /\ \A g \in 1..Len(safety.guards) :
    safety.guards[g].outbox = EmptyMap /\ safety.guards[g].journal = <<>>

====
